---- MODULE Spec2Model ----
(***************************************************************************)
(* Card-template rendering and dynamic-form validation engine of the       *)
(* adaptive-card agent:                                                    *)
(*   src/src/mcp_server/adaptive_card_server.py   (builders, dispatcher)   *)
(*   src/src/agents/adaptive_card_agent/agent.py  (agent tools, FORM_STORE)*)
(*                                                                         *)
(* Python / JSON values are tagged records, one field name per kind, so    *)
(* that values of different kinds can be compared:                         *)
(*   [str |-> "abc"]   a str whose text is not a JSON document             *)
(*   [enc |-> v]       a str whose text is the JSON encoding of value v    *)
(*   [num |-> 3]  [bool |-> TRUE]  [null |-> TRUE]                         *)
(*   [list |-> <<v1, v2>>]   [obj |-> [k1 |-> v1, k2 |-> v2]]              *)
(*   [model |-> [obj |-> ...]]   an object with a model_dump() method      *)
(***************************************************************************)
EXTENDS Integers, Sequences, FiniteSets, TLC

VARIABLES
    heap,        \* the dict objects FORM_STORE refers to: reference -> content
    held,        \* references of the dict objects a caller passed in and still holds
    FORM_STORE,  \* form identifier -> reference of the stored definition
    issued,      \* the identifiers uuid4() has returned
    task,        \* per coroutine: idle, awaiting the card server, or returned
    inbox        \* the argument the caller of the wide specifications passes

vars == <<heap, held, FORM_STORE, issued, task, inbox>>

----------------------------------------------------------------------------
(* Values *)

Str(s) == [str |-> s]
Enc(v) == [enc |-> v]
Num(n) == [num |-> n]
Bool(b) == [bool |-> b]
Null == [null |-> TRUE]
Lst(s) == [list |-> s]
Obj(f) == [obj |-> f]
Model(o) == [model |-> o]

IsStr(v) == "str" \in DOMAIN v \/ "enc" \in DOMAIN v
IsNum(v) == "num" \in DOMAIN v
IsBool(v) == "bool" \in DOMAIN v
IsNull(v) == "null" \in DOMAIN v
IsList(v) == "list" \in DOMAIN v
IsDict(v) == "obj" \in DOMAIN v
HasModelDump(v) == "model" \in DOMAIN v

\* The empty dict {} and the empty list [].
EmptyDict == Obj(<<>>)
EmptyList == Lst(<<>>)

\* Python truthiness, as used by `x or y`, `if x` and `not x`.
Truthy(v) ==
    IF IsNull(v) THEN FALSE
    ELSE IF IsBool(v) THEN v.bool
    ELSE IF IsNum(v) THEN v.num # 0
    ELSE IF "str" \in DOMAIN v THEN v.str # ""
    ELSE IF IsList(v) THEN Len(v.list) > 0
    ELSE IF IsDict(v) THEN DOMAIN v.obj # {}
    ELSE TRUE

\* dict.get(key, default) and dict.get(key) on a dict d.
Get(d, k, default) == IF k \in DOMAIN d.obj THEN d.obj[k] ELSE default
GetN(d, k) == Get(d, k, Null)

\* An `or` that never looks at its second operand.
OrFirst(a, b) == a

\* `a or b`
Or(a, b) == IF Truthy(a) THEN a ELSE b

\* An assignment that is lost: the dict keeps its old content.
SetItemLost(d, k, v) == d

\* d[k] = v on a dict d (the result is the dict's new content).
SetItem(d, k, v) ==
    Obj([x \in DOMAIN d.obj \cup {k} |-> IF x = k THEN v ELSE d.obj[x]])

----------------------------------------------------------------------------
(* Strings *)

UpperSeq == <<"A","B","C","D","E","F","G","H","I","J","K","L","M",
              "N","O","P","Q","R","S","T","U","V","W","X","Y","Z">>
LowerSeq == <<"a","b","c","d","e","f","g","h","i","j","k","l","m",
              "n","o","p","q","r","s","t","u","v","w","x","y","z">>

IsUpperChar(c) == \E i \in DOMAIN UpperSeq : UpperSeq[i] = c
IsLowerChar(c) == \E i \in DOMAIN LowerSeq : LowerSeq[i] = c
\* A lower-casing that leaves every character as it is.
LowerCharAsIs(c) == c

LowerChar(c) ==
    IF IsUpperChar(c)
    THEN LowerSeq[CHOOSE i \in DOMAIN UpperSeq : UpperSeq[i] = c] ELSE c
UpperChar(c) ==
    IF IsLowerChar(c)
    THEN UpperSeq[CHOOSE i \in DOMAIN LowerSeq : LowerSeq[i] = c] ELSE c

\* str.lower()
RECURSIVE Lower(_)
Lower(s) == IF s = "" THEN "" ELSE LowerChar(Head(s)) \o Lower(Tail(s))

\* str.upper()
RECURSIVE Upper(_)
Upper(s) == IF s = "" THEN "" ELSE UpperChar(Head(s)) \o Upper(Tail(s))

\* str.title(): a cased character is upper-cased when it follows an
\* uncased one (or starts the string) and lower-cased otherwise.
RECURSIVE TitleFrom(_, _)
TitleFrom(s, prevCased) ==
    IF s = "" THEN ""
    ELSE LET c == Head(s)
             cased == IsUpperChar(c) \/ IsLowerChar(c)
         IN (IF prevCased THEN LowerChar(c) ELSE UpperChar(c))
                \o TitleFrom(Tail(s), cased)
Title(s) == TitleFrom(s, FALSE)

Digits == <<"0","1","2","3","4","5","6","7","8","9">>

\* str(n) for an int n
RECURSIVE NatStr(_)
NatStr(n) == IF n < 10 THEN Digits[n + 1]
             ELSE NatStr(n \div 10) \o Digits[(n % 10) + 1]
IntStr(n) == IF n < 0 THEN "-" \o NatStr(0 - n) ELSE NatStr(n)

\* str(float(n)) for an integral float
FloatStr(n) == IntStr(n) \o ".0"

\* A magnitude that keeps the sign.
AbsSigned(n) == n

Abs(n) == IF n < 0 THEN 0 - n ELSE n

\* str(v), the text an f-string inserts for v
PyStr(v) ==
    IF "str" \in DOMAIN v THEN v.str
    ELSE IF IsNum(v) THEN IntStr(v.num)
    ELSE IF IsBool(v) THEN (IF v.bool THEN "True" ELSE "False")
    ELSE IF IsNull(v) THEN "None"
    ELSE "<repr>"

----------------------------------------------------------------------------
(* JSON *)

\* json.dumps(v): the JSON text of v.
JsonDumps(v) == Enc(v)

\* json.loads(text): the value, or JSONDecodeError when the text is not JSON.
JsonLoads(text) ==
    IF "enc" \in DOMAIN text THEN [ok |-> TRUE, val |-> text.enc]
    ELSE [ok |-> FALSE, val |-> Null]

----------------------------------------------------------------------------
(* Exceptions: a call that raises yields [raised |-> <exception name>]. *)

Raise(e) == [raised |-> e]
IsRaised(x) == "raised" \in DOMAIN x

----------------------------------------------------------------------------
(* Template builders (src/src/mcp_server/adaptive_card_server.py).         *)
(* A non-ASCII glyph of the source is written as its code point, <U+25B2>. *)

SchemaUrl == "https://adaptivecards.io/schemas/adaptive-card.json"

\* The shape stamped with a count kept across calls.
CardBaseStamped(speak, body) ==
    Obj(("$schema" :> Str(SchemaUrl)) @@
        [type |-> Str("AdaptiveCard"), version |-> Str("1.4"),
         speak |-> speak, body |-> Lst(body),
         id |-> Num(Cardinality(issued))])

\* The top-level shape every builder returns, without an "actions" key.
CardBase(speak, body) ==
    Obj(("$schema" :> Str(SchemaUrl)) @@
        [type |-> Str("AdaptiveCard"), version |-> Str("1.4"),
         speak |-> speak, body |-> Lst(body)])

\* The same shape with an "actions" key.
CardWithActions(speak, body, actions) ==
    SetItem(CardBase(speak, body), "actions", actions)

create_hero_card(data) ==
    IF ~IsDict(data) THEN Raise("AttributeError")
    ELSE CardWithActions(
        Str(PyStr(Get(data, "title", Str("Hero Card"))) \o ". "
            \o PyStr(Get(data, "description", Str("Description goes here...")))),
        << Obj([type |-> Str("Container"),
                items |-> Lst(<<
                    Obj([type |-> Str("Image"),
                         url |-> Get(data, "imageUrl", Str("https://picsum.photos/400/200")),
                         size |-> Str("Stretch"),
                         altText |-> Str("Hero Image")]),
                    Obj([type |-> Str("TextBlock"),
                         text |-> Get(data, "title", Str("Hero Card")),
                         weight |-> Str("Bolder"),
                         size |-> Str("Large")]),
                    Obj([type |-> Str("TextBlock"),
                         text |-> Get(data, "description", Str("Description goes here...")),
                         wrap |-> Bool(TRUE)]) >>)]) >>,
        Lst(<< Obj([type |-> Str("Action.OpenUrl"),
                    title |-> Str("Learn More"),
                    url |-> Get(data, "url", Str("https://adaptivecards.io"))]) >>))

create_alert_card(data) ==
    IF ~IsDict(data) THEN Raise("AttributeError")
    ELSE IF ~("str" \in DOMAIN Get(data, "severity", Str("low")))
    THEN Raise("AttributeError")
    ELSE
    LET severity == Lower(Get(data, "severity", Str("low")).str)
        color == IF severity = "low" THEN "Good"
                 ELSE IF severity = "medium" THEN "Warning" ELSE "Attention"
        body == <<
            Obj([type |-> Str("TextBlock"),
                 text |-> Str("Status Alert: " \o Upper(severity)),
                 weight |-> Str("Bolder"),
                 size |-> Str("Medium"),
                 color |-> Str(color)]),
            Obj([type |-> Str("FactSet"),
                 facts |-> Lst(<<
                    Obj([title |-> Str("Value:"),
                         value |-> Str(PyStr(Get(data, "value", Num(0))))]),
                    Obj([title |-> Str("Severity:"),
                         value |-> Str(Title(severity))]) >>)]),
            Obj([type |-> Str("TextBlock"),
                 text |-> Get(data, "detail", Str("No details provided.")),
                 wrap |-> Bool(TRUE)]) >>
        actions ==
            IF severity # "low"
            THEN << Obj([type |-> Str("Action.Submit"),
                         title |-> Str("Acknowledge"),
                         data |-> Obj([action |-> Str("acknowledge")]),
                         text |-> Str("acknowledge"),
                         msteams |-> Obj([type |-> Str("imBack"),
                                          value |-> Str("acknowledge")])]) >>
            ELSE << >>
    IN CardWithActions(
        Str("Status Alert: " \o Upper(severity) \o ". "
            \o PyStr(Get(data, "detail", Str("No details provided.")))),
        body,
        IF Len(actions) > 0 THEN Lst(actions) ELSE Null)

ChartUrl == "https://quickchart.io/chart?c={type:'bar',data:{labels:['Q1','Q2','Q3','Q4'],datasets:[{label:'Users',data:[50,60,70,180]}]}}"

create_data_summary_card(data) ==
    IF ~IsDict(data) THEN Raise("AttributeError")
    ELSE CardBase(
        Str("Data Summary for " \o PyStr(Get(data, "title", Str("Data Summary")))),
        << Obj([type |-> Str("TextBlock"),
                text |-> Get(data, "title", Str("Data Summary")),
                weight |-> Str("Bolder"),
                size |-> Str("Medium")]),
           Obj([type |-> Str("Image"),
                url |-> Str(ChartUrl),
                size |-> Str("Stretch"),
                altText |-> Str("Data Chart")]),
           Obj([type |-> Str("FactSet"),
                facts |-> Lst(<<
                    Obj([title |-> Str("Total:"),
                         value |-> Str(PyStr(Get(data, "total", Num(0))))]),
                    Obj([title |-> Str("Trend:"),
                         value |-> Get(data, "trend", Str("Stable"))]) >>)]) >>)

create_form_card(data) ==
    IF ~IsDict(data) THEN Raise("AttributeError")
    ELSE CardWithActions(
        Str("Form: " \o PyStr(Get(data, "title", Str("Feedback Form")))),
        << Obj([type |-> Str("TextBlock"),
                text |-> Get(data, "title", Str("Feedback Form")),
                weight |-> Str("Bolder"),
                size |-> Str("Medium")]),
           Obj([type |-> Str("Input.Text"),
                id |-> Str("name"),
                placeholder |-> Str("Enter your name")]),
           Obj([type |-> Str("Input.Date"),
                id |-> Str("date")]),
           Obj([type |-> Str("Input.Text"),
                id |-> Str("comment"),
                placeholder |-> Str("Comments..."),
                isMultiline |-> Bool(TRUE)]) >>,
        Lst(<< Obj([type |-> Str("Action.Submit"),
                    title |-> Str("Submit"),
                    data |-> Obj([action |-> Str("submit_form")]),
                    text |-> Str("submit_form"),
                    msteams |-> Obj([type |-> Str("imBack"),
                                     value |-> Str("submit_form")])]) >>))

\* The items a `for item in items` loop visits: the elements of a list, the
\* characters of a str.
RECURSIVE Chars(_)
Chars(s) == IF s = "" THEN <<>> ELSE <<Str(Head(s))>> \o Chars(Tail(s))

\* sep.join(parts) for a sequence of texts
RECURSIVE Join(_, _)
Join(parts, sep) ==
    IF Len(parts) = 0 THEN ""
    ELSE IF Len(parts) = 1 THEN parts[1]
    ELSE parts[1] \o sep \o Join(Tail(parts), sep)

\* An item container that shows the subtitle block even when it is empty.
ListItemContainerAlwaysSubtitle(item) ==
    LET item_title == IF IsStr(item) THEN item ELSE Get(item, "title", Str("Item"))
        item_subtitle == IF IsStr(item) THEN Str("") ELSE Get(item, "subtitle", Str(""))
    IN Obj([type |-> Str("Container"),
            items |-> Lst(<< Obj([type |-> Str("TextBlock"),
                                  text |-> item_title,
                                  weight |-> Str("Bolder"),
                                  wrap |-> Bool(TRUE)]),
                             Obj([type |-> Str("TextBlock"),
                                  text |-> item_subtitle,
                                  isSubtle |-> Bool(TRUE),
                                  spacing |-> Str("None"),
                                  wrap |-> Bool(TRUE)]) >>),
            separator |-> Bool(TRUE)])

\* One iteration of the item loop of create_list_card: the container of item.
ListItemContainer(item) ==
    LET item_title == IF IsStr(item) THEN item ELSE Get(item, "title", Str("Item"))
        item_subtitle == IF IsStr(item) THEN Str("") ELSE Get(item, "subtitle", Str(""))
        item_content ==
            << Obj([type |-> Str("TextBlock"),
                    text |-> item_title,
                    weight |-> Str("Bolder"),
                    wrap |-> Bool(TRUE)]) >>
            \o (IF Truthy(item_subtitle)
                THEN << Obj([type |-> Str("TextBlock"),
                             text |-> item_subtitle,
                             isSubtle |-> Bool(TRUE),
                             spacing |-> Str("None"),
                             wrap |-> Bool(TRUE)]) >>
                ELSE << >>)
    IN Obj([type |-> Str("Container"),
            items |-> Lst(item_content),
            separator |-> Bool(TRUE)])

create_list_card(data) ==
    IF ~IsDict(data) THEN Raise("AttributeError")
    ELSE
    LET items == Or(Or(Or(GetN(data, "items"), GetN(data, "tasks")),
                       GetN(data, "checklist")), EmptyList)
        title == Or(GetN(data, "title"), Str("Item List"))
        head == << Obj([type |-> Str("TextBlock"),
                        text |-> title,
                        size |-> Str("Medium"),
                        weight |-> Str("Bolder")]) >>
    IN IF ~(IsList(items) \/ "str" \in DOMAIN items)
       THEN Raise("TypeError")
       ELSE
       LET seq == IF IsList(items) THEN items.list ELSE Chars(items.str)
           first3 == SubSeq(seq, 1, IF Len(seq) < 3 THEN Len(seq) ELSE 3)
           spoken == [i \in DOMAIN first3 |->
                        IF IsDict(first3[i]) THEN Get(first3[i], "title", Str(""))
                        ELSE first3[i]]
       IN IF \E i \in DOMAIN seq : ~(IsStr(seq[i]) \/ IsDict(seq[i]))
          THEN Raise("AttributeError")
          ELSE IF \E i \in DOMAIN spoken : ~("str" \in DOMAIN spoken[i])
          THEN Raise("TypeError")
          ELSE CardBase(
                Str("List: " \o PyStr(title) \o ". "
                    \o Join([i \in DOMAIN spoken |-> spoken[i].str], " ")),
                IF ~Truthy(items)
                THEN head \o << Obj([type |-> Str("TextBlock"),
                                     text |-> Str("(No items found)"),
                                     isSubtle |-> Bool(TRUE),
                                     italic |-> Bool(TRUE)]) >>
                ELSE head \o [i \in DOMAIN seq |-> ListItemContainer(seq[i])])

create_flight_update_card(data) ==
    IF ~IsDict(data) THEN Raise("AttributeError")
    ELSE CardWithActions(
        Str("Flight Update for " \o PyStr(Get(data, "flightNumber", Str("UA123")))
            \o ", " \o PyStr(Get(data, "route", Str("SFO > JFK")))
            \o ". Status: " \o PyStr(Get(data, "status", Str("On Time")))),
        << Obj([type |-> Str("TextBlock"),
                text |-> Str("Flight Update"),
                size |-> Str("Medium"),
                weight |-> Str("Bolder"),
                color |-> Str("Accent")]),
           Obj([type |-> Str("ColumnSet"),
                columns |-> Lst(<<
                    Obj([type |-> Str("Column"),
                         width |-> Str("stretch"),
                         items |-> Lst(<<
                            Obj([type |-> Str("TextBlock"),
                                 text |-> Get(data, "flightNumber", Str("UA123")),
                                 size |-> Str("ExtraLarge"),
                                 weight |-> Str("Bolder")]),
                            Obj([type |-> Str("TextBlock"),
                                 text |-> Get(data, "route", Str("SFO > JFK")),
                                 isSubtle |-> Bool(TRUE),
                                 spacing |-> Str("None")]) >>)]),
                    Obj([type |-> Str("Column"),
                         width |-> Str("auto"),
                         items |-> Lst(<<
                            Obj([type |-> Str("TextBlock"),
                                 text |-> Get(data, "status", Str("On Time")),
                                 color |-> Str(IF GetN(data, "status") = Str("On Time")
                                               THEN "Good" ELSE "Attention"),
                                 weight |-> Str("Bolder")]) >>)]) >>)]),
           Obj([type |-> Str("FactSet"),
                facts |-> Lst(<<
                    Obj([title |-> Str("Passenger:"),
                         value |-> Get(data, "passenger", Str("John Doe"))]),
                    Obj([title |-> Str("Gate:"),
                         value |-> Get(data, "gate", Str("TBD"))]),
                    Obj([title |-> Str("Boarding:"),
                         value |-> Get(data, "boardingTime", Str("12:00 PM"))]) >>)]) >>,
        Lst(<< Obj([type |-> Str("Action.OpenUrl"),
                    title |-> Str("Check In"),
                    url |-> Str("https://www.united.com")]) >>))

create_weather_card(data) ==
    IF ~IsDict(data) THEN Raise("AttributeError")
    ELSE CardBase(
        Str("Weather in " \o PyStr(Get(data, "city", Str("Unknown"))) \o ": "
            \o PyStr(Get(data, "temperature", Str("72")))
            \o " degrees fahrenheit, "
            \o PyStr(Get(data, "condition", Str("Sunny")))),
        << Obj([type |-> Str("TextBlock"),
                text |-> Str("Weather in " \o PyStr(Get(data, "city", Str("Unknown")))),
                size |-> Str("Medium"),
                weight |-> Str("Bolder")]),
           Obj([type |-> Str("ColumnSet"),
                columns |-> Lst(<<
                    Obj([type |-> Str("Column"),
                         width |-> Str("auto"),
                         items |-> Lst(<<
                            Obj([type |-> Str("Image"),
                                 url |-> Get(data, "iconUrl",
                                             Str("https://openweathermap.org/img/wn/10d@2x.png")),
                                 size |-> Str("Small")]) >>)]),
                    Obj([type |-> Str("Column"),
                         width |-> Str("stretch"),
                         items |-> Lst(<<
                            Obj([type |-> Str("TextBlock"),
                                 text |-> Str(PyStr(Get(data, "temperature", Str("72"))) \o "<U+00B0>F"),
                                 size |-> Str("ExtraLarge"),
                                 weight |-> Str("Lighter")]),
                            Obj([type |-> Str("TextBlock"),
                                 text |-> Get(data, "condition", Str("Sunny")),
                                 isSubtle |-> Bool(TRUE),
                                 spacing |-> Str("None")]) >>)]) >>)]),
           Obj([type |-> Str("FactSet"),
                facts |-> Lst(<<
                    Obj([title |-> Str("High:"),
                         value |-> Str(PyStr(Get(data, "high", Str("75"))) \o "<U+00B0>F")]),
                    Obj([title |-> Str("Low:"),
                         value |-> Str(PyStr(Get(data, "low", Str("60"))) \o "<U+00B0>F")]),
                    Obj([title |-> Str("Wind:"),
                         value |-> Get(data, "wind", Str("10 mph"))]) >>)]) >>)

create_stock_update_card(data) ==
    IF ~IsDict(data) THEN Raise("AttributeError")
    ELSE IF ~IsNum(Get(data, "change", Num(0))) THEN Raise("ValueError")
    ELSE
    LET change == Get(data, "change", Num(0)).num
        color == IF change >= 0 THEN "Good" ELSE "Attention"
        arrow == IF change >= 0 THEN "<U+25B2>" ELSE "<U+25BC>"
    IN CardBase(
        Str("Market Update for " \o PyStr(Get(data, "symbol", Str("MSFT")))
            \o ": Current price is " \o PyStr(Get(data, "price", Str("0.00")))
            \o " dollars, change is " \o PyStr(Get(data, "changePoints", Str("0.00")))
            \o " points."),
        << Obj([type |-> Str("TextBlock"),
                text |-> Str("Market Update"),
                size |-> Str("Medium"),
                weight |-> Str("Bolder"),
                color |-> Str("Accent")]),
           Obj([type |-> Str("Container"),
                items |-> Lst(<<
                    Obj([type |-> Str("TextBlock"),
                         text |-> Get(data, "symbol", Str("MSFT")),
                         size |-> Str("Large"),
                         weight |-> Str("Bolder")]),
                    Obj([type |-> Str("ColumnSet"),
                         columns |-> Lst(<<
                            Obj([type |-> Str("Column"),
                                 width |-> Str("auto"),
                                 items |-> Lst(<<
                                    Obj([type |-> Str("TextBlock"),
                                         text |-> Str("$" \o PyStr(Get(data, "price", Str("0.00")))),
                                         size |-> Str("ExtraLarge")]) >>)]),
                            Obj([type |-> Str("Column"),
                                 width |-> Str("stretch"),
                                 items |-> Lst(<<
                                    Obj([type |-> Str("TextBlock"),
                                         text |-> Str(arrow \o " " \o FloatStr(Abs(change)) \o "% ("
                                                      \o PyStr(Get(data, "changePoints", Str("0.00")))
                                                      \o ")"),
                                         color |-> Str(color),
                                         weight |-> Str("Bolder"),
                                         spacing |-> Str("Medium")]) >>)]) >>)]) >>)]) >>)

create_calendar_invite_card(data) ==
    IF ~IsDict(data) THEN Raise("AttributeError")
    ELSE CardWithActions(
        Str("Calendar Invite: " \o PyStr(Get(data, "title", Str("Team Meeting")))
            \o " at " \o PyStr(Get(data, "time", Str("10:00 AM - 11:00 AM")))),
        << Obj([type |-> Str("TextBlock"),
                text |-> Str("Calendar Invite"),
                size |-> Str("Medium"),
                weight |-> Str("Bolder"),
                color |-> Str("Accent")]),
           Obj([type |-> Str("TextBlock"),
                text |-> Get(data, "title", Str("Team Meeting")),
                size |-> Str("Large"),
                weight |-> Str("Bolder"),
                wrap |-> Bool(TRUE)]),
           Obj([type |-> Str("FactSet"),
                facts |-> Lst(<<
                    Obj([title |-> Str("Time:"),
                         value |-> Get(data, "time", Str("10:00 AM - 11:00 AM"))]),
                    Obj([title |-> Str("Location:"),
                         value |-> Get(data, "location", Str("Room 404"))]),
                    Obj([title |-> Str("Organizer:"),
                         value |-> Get(data, "organizer", Str("Alok Pandit"))]) >>)]),
           Obj([type |-> Str("TextBlock"),
                text |-> Get(data, "description", Str("Agenda tbd...")),
                wrap |-> Bool(TRUE)]) >>,
        Lst(<< Obj([type |-> Str("Action.Submit"),
                    title |-> Str("Accept"),
                    style |-> Str("positive"),
                    data |-> Obj([action |-> Str("accept"), eventId |-> GetN(data, "id")]),
                    text |-> Str("accept")]),
               Obj([type |-> Str("Action.Submit"),
                    title |-> Str("Decline"),
                    style |-> Str("destructive"),
                    data |-> Obj([action |-> Str("decline"), eventId |-> GetN(data, "id")]),
                    text |-> Str("decline")]) >>))

create_restaurant_details_card(data) ==
    IF ~IsDict(data) THEN Raise("AttributeError")
    ELSE CardWithActions(
        Str("Restaurant Details for " \o PyStr(Get(data, "name", Str("Restaurant Name")))
            \o ". Rating: " \o PyStr(Get(data, "rating", Str("4.5")))),
        << Obj([type |-> Str("Image"),
                url |-> Get(data, "imageUrl", Str("https://adaptivecards.io/content/cats/2.png")),
                size |-> Str("Stretch"),
                altText |-> Str("Restaurant Image")]),
           Obj([type |-> Str("TextBlock"),
                text |-> Get(data, "name", Str("Restaurant Name")),
                size |-> Str("Medium"),
                weight |-> Str("Bolder")]),
           Obj([type |-> Str("ColumnSet"),
                columns |-> Lst(<<
                    Obj([type |-> Str("Column"),
                         width |-> Str("auto"),
                         items |-> Lst(<<
                            Obj([type |-> Str("TextBlock"),
                                 text |-> Str("<U+2B50> " \o PyStr(Get(data, "rating", Str("4.5")))
                                              \o " (" \o PyStr(Get(data, "reviews", Str("100")))
                                              \o ")"),
                                 isSubtle |-> Bool(TRUE)]) >>)]),
                    Obj([type |-> Str("Column"),
                         width |-> Str("stretch"),
                         items |-> Lst(<<
                            Obj([type |-> Str("TextBlock"),
                                 text |-> Str(PyStr(Get(data, "cuisine", Str("American")))
                                              \o " <U+2022> " \o PyStr(Get(data, "price", Str("$$$")))),
                                 isSubtle |-> Bool(TRUE),
                                 horizontalAlignment |-> Str("Right")]) >>)]) >>)]),
           Obj([type |-> Str("TextBlock"),
                text |-> Get(data, "address", Str("123 Main St, City")),
                wrap |-> Bool(TRUE),
                isSubtle |-> Bool(TRUE)]) >>,
        Lst(<< Obj([type |-> Str("Action.OpenUrl"),
                    title |-> Str("Book Table"),
                    url |-> Get(data, "url", Str("https://opentable.com"))]),
               Obj([type |-> Str("Action.OpenUrl"),
                    title |-> Str("View Menu"),
                    url |-> Get(data, "menuUrl", Str("https://opentable.com"))]) >>))

create_popup_card(data) ==
    IF ~IsDict(data) THEN Raise("AttributeError")
    ELSE CardWithActions(
        Str(PyStr(Get(data, "title", Str("Tool"))) \o ". "
            \o PyStr(Get(data, "text", Str("Click button to open.")))),
        << Obj([type |-> Str("Image"),
                url |-> Str("https://media.giphy.com/media/l41lI4bYmcsPJX9Go/giphy.gif"),
                size |-> Str("Medium"),
                horizontalAlignment |-> Str("Center")]),
           Obj([type |-> Str("TextBlock"),
                text |-> Get(data, "title", Str("Tool")),
                size |-> Str("Medium"),
                weight |-> Str("Bolder"),
                horizontalAlignment |-> Str("Center")]),
           Obj([type |-> Str("TextBlock"),
                text |-> Get(data, "text", Str("Click button to open.")),
                wrap |-> Bool(TRUE)]) >>,
        Lst(<< Obj([type |-> Str("Action.Submit"),
                    title |-> Str(PyStr(Get(data, "buttonTitle", Str("Open"))) \o " (Teams)"),
                    data |-> Obj([msteams |-> Obj([type |-> Str("task/fetch")]),
                                  url |-> Get(data, "url", Str("about:blank")),
                                  title |-> Get(data, "title", Str("Tool"))]),
                    text |-> Str("open_tool")]),
               Obj([type |-> Str("Action.OpenUrl"),
                    title |-> Str(PyStr(Get(data, "buttonTitle", Str("Open"))) \o " (Web)"),
                    url |-> Get(data, "url", Str("about:blank"))]) >>))

\* A "simple" builder that hands back the bare message instead of a document.
create_simple_cardBare(data) == GetN(data, "message")

create_simple_card(data) ==
    IF ~IsDict(data) THEN Raise("AttributeError")
    ELSE
    LET text == Or(Or(Or(GetN(data, "message"), GetN(data, "text")),
                      GetN(data, "content")), Str("No content provided."))
    IN CardBase(text,
                << Obj([type |-> Str("TextBlock"),
                        text |-> text,
                        wrap |-> Bool(TRUE)]) >>)

\* One iteration of the field loop of create_dynamic_form: the blocks that
\* field appends to the body (its label, then its input element if the type
\* is one of the five known ones).
FormFieldBlocks(field) ==
    LET field_id == GetN(field, "id")
        field_type == Lower(Get(field, "type", Str("text")).str)
        label == Get(field, "label", field_id)
        placeholder == Get(field, "placeholder", Str(""))
        is_required == Get(field, "isRequired", Bool(FALSE))
        labelBlock == Obj([type |-> Str("TextBlock"),
                           text |-> label,
                           weight |-> Str("Bolder"),
                           spacing |-> Str("Medium")])
        options == Get(field, "options", EmptyList).list
        choices == [i \in DOMAIN options |->
                        Obj([title |-> Get(options[i], "title", Str("Option")),
                             value |-> Get(options[i], "value", Str("val"))])]
        is_multi == Or(Get(field, "isMultiSelect", Bool(FALSE)),
                       Bool(field_type = "checkbox"))
        style == IF field_type = "checkbox" THEN "expanded" ELSE "compact"
    IN  IF field_type = "text"
        THEN << labelBlock,
                Obj([type |-> Str("Input.Text"),
                     id |-> field_id,
                     placeholder |-> placeholder,
                     isRequired |-> is_required,
                     errorMessage |-> Str(PyStr(label) \o " is required")]) >>
        ELSE IF field_type = "date"
        THEN << labelBlock,
                Obj([type |-> Str("Input.Date"),
                     id |-> field_id,
                     isRequired |-> is_required,
                     errorMessage |-> Str(PyStr(label) \o " is required")]) >>
        ELSE IF field_type = "number"
        THEN << labelBlock,
                Obj([type |-> Str("Input.Number"),
                     id |-> field_id,
                     placeholder |-> placeholder,
                     isRequired |-> is_required,
                     errorMessage |-> Str(PyStr(label) \o " is required")]) >>
        ELSE IF field_type \in {"choice", "checkbox"}
        THEN << labelBlock,
                Obj([type |-> Str("Input.ChoiceSet"),
                     id |-> field_id,
                     choices |-> Lst(choices),
                     isMultiSelect |-> is_multi,
                     style |-> Str(style),
                     isRequired |-> is_required,
                     errorMessage |-> Str("Please select " \o PyStr(label))]) >>
        ELSE << labelBlock >>

\* Whether the loop iteration for this field raises.
FormFieldRaises(field) ==
    \/ ~IsDict(field)
    \/ ~("str" \in DOMAIN Get(field, "type", Str("text")))
    \/ /\ Lower(Get(field, "type", Str("text")).str) \in {"choice", "checkbox"}
       /\ \/ ~IsList(Get(field, "options", EmptyList))
          \/ \E i \in DOMAIN Get(field, "options", EmptyList).list :
                ~IsDict(Get(field, "options", EmptyList).list[i])

\* body.append over the fields, in order.
RECURSIVE FormBody(_)
FormBody(fields) ==
    IF Len(fields) = 0 THEN << >>
    ELSE FormFieldBlocks(Head(fields)) \o FormBody(Tail(fields))

create_dynamic_form(data) ==
    IF ~IsDict(data) THEN Raise("AttributeError")
    ELSE
    LET title == Get(data, "title", Str("Dynamic Form"))
        instructions == GetN(data, "instructions")
        fields == Get(data, "fields", EmptyList)
        head == << Obj([type |-> Str("TextBlock"),
                        text |-> title,
                        weight |-> Str("Bolder"),
                        size |-> Str("Large")]) >>
                \o (IF Truthy(instructions)
                    THEN << Obj([type |-> Str("TextBlock"),
                                 text |-> instructions,
                                 wrap |-> Bool(TRUE),
                                 isSubtle |-> Bool(TRUE)]) >>
                    ELSE << >>)
        submit_data == IF "form_id" \in DOMAIN data.obj
                       THEN Obj([action |-> Str("submit_dynamic_form"),
                                 form_id |-> data.obj["form_id"]])
                       ELSE Obj([action |-> Str("submit_dynamic_form")])
    IN IF ~IsList(fields) THEN Raise("TypeError")
       ELSE IF \E i \in DOMAIN fields.list : FormFieldRaises(fields.list[i])
       THEN Raise("AttributeError")
       ELSE CardWithActions(
            Str("Dynamic Form: " \o PyStr(title)),
            head \o FormBody(fields.list),
            Lst(<< Obj([type |-> Str("Action.Submit"),
                        title |-> Str("Submit"),
                        data |-> submit_data,
                        text |-> Str("submit_dynamic_form"),
                        msteams |-> Obj([type |-> Str("imBack"),
                                         value |-> Str("submit_dynamic_form")])]) >>))

----------------------------------------------------------------------------
(* Dispatcher of the card server: generate_adaptive_card(template, data) *)

\* The branch the if/elif chain takes for the lower-cased template name, and
\* the builder that branch calls.
ServerDispatch(template, data_dict) ==
    IF template = "hero" THEN create_hero_card(data_dict)
    ELSE IF template = "alert" THEN create_alert_card(data_dict)
    ELSE IF template = "data_summary" THEN create_data_summary_card(data_dict)
    ELSE IF template = "form" THEN create_form_card(data_dict)
    ELSE IF template = "list" THEN create_list_card(data_dict)
    ELSE IF template = "flight_update" THEN create_flight_update_card(data_dict)
    ELSE IF template = "weather" THEN create_weather_card(data_dict)
    ELSE IF template = "stock_update" THEN create_stock_update_card(data_dict)
    ELSE IF template = "calendar_invite" THEN create_calendar_invite_card(data_dict)
    ELSE IF template = "restaurant_details" THEN create_restaurant_details_card(data_dict)
    ELSE IF template = "popup" THEN create_popup_card(data_dict)
    ELSE IF template = "simple" THEN create_simple_card(data_dict)
    ELSE IF template = "dynamic_form" THEN create_dynamic_form(data_dict)
    ELSE create_simple_card(data_dict)

\* The value a builder is called with: what json.loads(data) returned.
ServerBuilderArg(data) == JsonLoads(data).val

\* Whether the call reaches a builder at all.
ServerCallsBuilder(data) == JsonLoads(data).ok

InvalidJsonReply == JsonDumps(Obj([error |-> Str("Invalid JSON data provided.")]))

\* The tool without `template = template.lower()`.
ServerGenerateAdaptiveCardCaseSensitive(template, data) ==
    IF ~JsonLoads(data).ok THEN InvalidJsonReply
    ELSE LET card == ServerDispatch(template, JsonLoads(data).val)
         IN IF IsRaised(card) THEN card ELSE JsonDumps(card)

\* The tool of the card server.  data is a str.  The result is the str the
\* tool returns, or [raised |-> e] when the builder raises.
ServerGenerateAdaptiveCard(template, data) ==
    IF ~JsonLoads(data).ok THEN InvalidJsonReply
    ELSE LET card == ServerDispatch(Lower(template), JsonLoads(data).val)
         IN IF IsRaised(card) THEN card ELSE JsonDumps(card)

----------------------------------------------------------------------------
(* Agent tools (src/src/agents/adaptive_card_agent/agent.py) *)

\* _build_fallback_card(message, template, data_json); message is a text,
\* template and data_json are str values.
_build_fallback_card(message, template, data_json) ==
    JsonDumps(Obj(("$schema" :> Str("http://adaptivecards.io/schemas/adaptive-card.json")) @@
        [type |-> Str("AdaptiveCard"),
         version |-> Str("1.5"),
         body |-> Lst(<<
            Obj([type |-> Str("TextBlock"),
                 text |-> Str("Adaptive Card Generation Error"),
                 weight |-> Str("Bolder"),
                 size |-> Str("Medium")]),
            Obj([type |-> Str("TextBlock"),
                 text |-> Str(message),
                 wrap |-> Bool(TRUE)]) >>),
         actions |-> Lst(<<
            Obj([type |-> Str("Action.Submit"),
                 title |-> Str("Retry"),
                 data |-> Obj([action |-> Str("retry"),
                               template |-> Str(template),
                               originalData |-> data_json])]) >>)]))

\* str(data) for a value that is neither a str, a model, a dict nor a list.
\* The text of a number is a JSON document, the texts None/True/False are not.
StrOf(data) == IF IsNum(data) THEN Enc(data) ELSE Str(PyStr(data))

\* The serialization block of generate_adaptive_card: serialized_data.
AgentSerialize(data) ==
    IF IsStr(data)
    THEN IF JsonLoads(data).ok THEN data ELSE JsonDumps(data)
    ELSE IF HasModelDump(data) THEN JsonDumps(data.model)
    ELSE IF IsDict(data) \/ IsList(data) THEN JsonDumps(data)
    ELSE StrOf(data)

\* What the stdio session to the card server does with one call_tool request.
\*   "ok"          the server ran the tool and its reply came back
\*   "unreachable" stdio_client / initialize / call_tool raised
\*   "nocontent"   the reply carried no text content
Links == {"ok", "unreachable", "nocontent"}

\* What the tool runtime does when the tool function raises: it reports the
\* error as the text content of the reply, or call_tool raises at the client.
\* Which of the two is a property of the runtime library, so either may occur.
RaiseModes == {"content", "exception"}

ToolErrorText(e) == "Error executing tool generate_adaptive_card: " \o e
TransportErrorText == "Connection closed"

\* The try block of generate_adaptive_card: the str the tool returns for the
\* request (template, serialized_data) under the given behaviour of the link.
AgentReply(template, serialized_data, link, mode) ==
    IF link = "unreachable"
    THEN _build_fallback_card("Error: " \o TransportErrorText, template, serialized_data)
    ELSE IF link = "nocontent"
    THEN _build_fallback_card("No content returned from generator.", template, serialized_data)
    ELSE LET text == ServerGenerateAdaptiveCard(template, serialized_data)
         IN IF ~IsRaised(text) THEN text
            ELSE IF mode = "content" THEN Str(ToolErrorText(text.raised))
            ELSE _build_fallback_card("Error: " \o text.raised, template, serialized_data)

\* The normalisation block of generate_dynamic_form_card: data_dict.  str() of
\* a list of numbers is a JSON document, str() of any other list is not.
FormDataDict(data) ==
    IF HasModelDump(data) THEN data.model
    ELSE IF IsDict(data) THEN data
    ELSE LET text == IF IsStr(data) THEN data
                     ELSE IF IsList(data) /\ \A i \in DOMAIN data.list : IsNum(data.list[i])
                     THEN Enc(data)
                     ELSE StrOf(data)
         IN IF JsonLoads(text).ok THEN JsonLoads(text).val
            ELSE Obj([title |-> Str("Form"), fields |-> EmptyList])

\* The first block of validate_form_submission: submission_data after the
\* attempt to parse a str.
SubmissionDict(submission_data) ==
    IF IsStr(submission_data) /\ JsonLoads(submission_data).ok
    THEN JsonLoads(submission_data).val
    ELSE submission_data

\* submission_data.get(fid)
SubmissionGet(sd, fid) ==
    IF "str" \in DOMAIN fid /\ fid.str \in DOMAIN sd.obj THEN sd.obj[fid.str] ELSE Null

\* The loop without the isRequired test.
RECURSIVE ValidationErrorsAllFields(_, _)
ValidationErrorsAllFields(fields, sd) ==
    IF Len(fields) = 0 THEN << >>
    ELSE LET field == Head(fields)
             fid == GetN(field, "id")
             label == Get(field, "label", fid)
             val == SubmissionGet(sd, fid)
         IN (IF IsNull(val) \/ val = Str("")
             THEN << "- " \o PyStr(label) \o " is required." >>
             ELSE << >>)
            \o ValidationErrorsAllFields(Tail(fields), sd)

\* The loop returning at the first error.
RECURSIVE ValidationErrorsFailFast(_, _)
ValidationErrorsFailFast(fields, sd) ==
    IF Len(fields) = 0 THEN << >>
    ELSE LET field == Head(fields)
             fid == GetN(field, "id")
             label == Get(field, "label", fid)
             val == SubmissionGet(sd, fid)
         IN IF Truthy(GetN(field, "isRequired")) /\ (IsNull(val) \/ val = Str(""))
            THEN << "- " \o PyStr(label) \o " is required." >>
            ELSE ValidationErrorsFailFast(Tail(fields), sd)

\* The loop of validate_form_submission over the fields: errors, in order.
RECURSIVE ValidationErrors(_, _)
ValidationErrors(fields, sd) ==
    IF Len(fields) = 0 THEN << >>
    ELSE LET field == Head(fields)
             fid == GetN(field, "id")
             label == Get(field, "label", fid)
             val == SubmissionGet(sd, fid)
         IN (IF Truthy(GetN(field, "isRequired")) /\ (IsNull(val) \/ val = Str(""))
             THEN << "- " \o PyStr(label) \o " is required." >>
             ELSE << >>)
            \o ValidationErrors(Tail(fields), sd)

\* The message validate_form_submission hands to the "simple" template for a
\* submission that names the stored definition.
ValidationMessage(definition, sd) ==
    LET errors == ValidationErrors(Get(definition, "fields", EmptyList).list, sd)
    IN IF Len(errors) > 0
       THEN "Validation Failed:\n" \o Join(errors, "\n")
       ELSE "Success! Your submission for '" \o PyStr(GetN(definition, "title"))
                \o "' has been validated."

\* The not-found case reported as a field-level failure.
SessionNotFoundAsFieldError(form_id) ==
    "Validation Failed:\n- form_id is required."

SessionNotFoundMessage(form_id) ==
    "Error: Form session '" \o PyStr(form_id) \o "' not found or expired."

InvalidSubmissionMessage == "Error: Invalid submission data received."

----------------------------------------------------------------------------
(* State *)

\* Bounds of the model.
MaxForms == 2
MaxTasks == 3

Tasks == 1..MaxTasks
UUIDs == { "uuid-" \o IntStr(i) : i \in 1..MaxForms }

\* An identifier generator that may return an identifier again.
Uuid4Reused(used) == UUIDs

\* str(uuid.uuid4()): an identifier that was not returned before.  Which of
\* the unused identifiers it is makes no difference to any caller, so the
\* model takes one representative; the set is empty when the bound is reached.
Uuid4(used) ==
    IF UUIDs \ used = {} THEN {}
    ELSE { CHOOSE u \in UUIDs \ used : TRUE }

\* A coroutine that has not been called.  input is the tool's argument, data
\* the serialized_data of its request, defn the definition a validation read,
\* fid the identifier a store generated, out the value the tool returned.
\* requests counts the call_tool requests the call has issued.
\* seen is a history of the call: whether the store call that issued the
\* submitted form_id had returned when the validation began.
\* On the server side of the request: called tells whether a builder was
\* called, barg is the value it was called with, reply what the tool produced.
IdleTask ==
    [pc |-> "idle", op |-> "", template |-> "", input |-> Null,
     data |-> Null, defn |-> Null, fid |-> Null, link |-> "",
     called |-> FALSE, barg |-> Null, reply |-> Null, out |-> Null,
     seen |-> FALSE, requests |-> 0]

\* A read that catches the definition before its fields are written.
StoredPartial(f) ==
    Obj([k \in DOMAIN heap[FORM_STORE[f]].obj \ {"fields"} |-> heap[FORM_STORE[f]].obj[k]])

\* The content of the definition stored under identifier f.
Stored(f) == heap[FORM_STORE[f]]

\* The module as imported: FORM_STORE = {} and no tool running.
InitState ==
    /\ heap = << >>
    /\ held = {}
    /\ FORM_STORE = << >>
    /\ issued = {}
    /\ task = [t \in Tasks |-> IdleTask]

Init == InitState /\ inbox = Null

----------------------------------------------------------------------------
(* Operations.  Every tool runs without suspension up to its request to the *)
(* card server (the first await that yields), and resumes with the reply.   *)

\* generate_adaptive_card(template, data) up to the request.
GenerateAdaptiveCardCall(t, template, data) ==
    /\ task[t].pc # "await"
    /\ task' = [task EXCEPT ![t] =
                  [IdleTask EXCEPT !.pc = "await", !.op = "generate_adaptive_card",
                                   !.requests = 1,
                                   !.template = template, !.input = data,
                                   !.data = AgentSerialize(data)]]
    /\ UNCHANGED <<heap, held, FORM_STORE, issued, inbox>>

\* generate_dynamic_form_card(data) up to the request.  arg is [ref |-> r] for
\* a dict object the caller holds, [val |-> v] for a value it has just built.
GenerateDynamicFormCardCall(t, arg) ==
    /\ task[t].pc # "await"
    /\ \E u \in Uuid4(issued) :
        LET form_id == Str(u)
            isHeld == "ref" \in DOMAIN arg
            input == IF isHeld THEN heap[arg.ref] ELSE arg.val
            data_dict == IF isHeld THEN heap[arg.ref] ELSE FormDataDict(arg.val)
            sameObject == isHeld \/ IsDict(arg.val)
            ref == IF isHeld THEN arg.ref ELSE Len(heap) + 1
            content == SetItem(data_dict, "form_id", form_id)
        IN /\ issued' = issued \cup {u}
           /\ IF ~IsDict(data_dict)
              THEN \* data_dict["form_id"] = form_id raises
                   /\ task' = [task EXCEPT ![t] =
                        [IdleTask EXCEPT !.pc = "done",
                                         !.op = "generate_dynamic_form_card",
                                         !.input = input, !.fid = form_id,
                                         !.out = Raise("TypeError")]]
                   /\ UNCHANGED <<heap, held, FORM_STORE>>
              ELSE /\ heap' = IF isHeld THEN [heap EXCEPT ![ref] = content]
                              ELSE Append(heap, content)
                   /\ held' = IF sameObject THEN held \cup {ref} ELSE held
                   /\ FORM_STORE' = (u :> ref) @@ FORM_STORE
                   /\ task' = [task EXCEPT ![t] =
                        [IdleTask EXCEPT !.pc = "await",
                                         !.op = "generate_dynamic_form_card",
                                         !.template = "dynamic_form",
                                         !.requests = 1,
                                         !.input = input, !.fid = form_id,
                                         !.data = AgentSerialize(content)]]
    /\ UNCHANGED inbox

\* `form_id in FORM_STORE`
InFormStore(form_id) == "str" \in DOMAIN form_id /\ form_id.str \in DOMAIN FORM_STORE

\* The identifiers of the generate_dynamic_form_card calls that have returned.
StoresReturned ==
    { task[s].fid.str : s \in { x \in Tasks :
          /\ task[x].pc = "done"
          /\ task[x].op = "generate_dynamic_form_card"
          /\ ~IsRaised(task[x].out) } }

\* A validation that consumes the definition it validated against.
ValidateFormSubmissionCallConsuming(t, submission_data) ==
    /\ task[t].pc # "await"
    /\ LET sd == SubmissionDict(submission_data)
           form_id == GetN(sd, "form_id")
           found == IsDict(sd) /\ Truthy(form_id) /\ InFormStore(form_id)
           definition == IF found THEN Stored(form_id.str) ELSE Null
           message == IF ~IsDict(sd) THEN InvalidSubmissionMessage
                      ELSE IF ~found THEN SessionNotFoundMessage(form_id)
                      ELSE ValidationMessage(definition, sd)
       IN /\ task' = [task EXCEPT ![t] =
                       [IdleTask EXCEPT !.pc = "await",
                                        !.op = "validate_form_submission",
                                        !.template = "simple",
                                        !.requests = 1,
                                        !.input = submission_data,
                                        !.defn = definition,
                                        !.seen = (IsDict(sd) /\ "str" \in DOMAIN form_id
                                                  /\ form_id.str \in StoresReturned),
                                        !.data = AgentSerialize(Obj([message |-> Str(message)]))]]
          /\ FORM_STORE' = IF found
                           THEN [f \in DOMAIN FORM_STORE \ {form_id.str} |-> FORM_STORE[f]]
                           ELSE FORM_STORE
    /\ UNCHANGED <<heap, held, issued, inbox>>

\* validate_form_submission(submission_data) up to the request.
ValidateFormSubmissionCall(t, submission_data) ==
    /\ task[t].pc # "await"
    /\ LET sd == SubmissionDict(submission_data)
           form_id == GetN(sd, "form_id")
           found == IsDict(sd) /\ Truthy(form_id) /\ InFormStore(form_id)
           definition == IF found THEN Stored(form_id.str) ELSE Null
           message == IF ~IsDict(sd) THEN InvalidSubmissionMessage
                      ELSE IF ~found THEN SessionNotFoundMessage(form_id)
                      ELSE ValidationMessage(definition, sd)
       IN task' = [task EXCEPT ![t] =
                    [IdleTask EXCEPT !.pc = "await",
                                     !.op = "validate_form_submission",
                                     !.template = "simple",
                                     !.requests = 1,
                                     !.input = submission_data,
                                     !.defn = definition,
                                     !.seen = (IsDict(sd) /\ "str" \in DOMAIN form_id
                                               /\ form_id.str \in StoresReturned),
                                     !.data = AgentSerialize(Obj([message |-> Str(message)]))]]
    /\ UNCHANGED <<heap, held, FORM_STORE, issued, inbox>>

\* A tool that takes its store entry back when the render fails.
CardServerReplyRollingBack(t, link, mode) ==
    /\ task[t].pc = "await"
    /\ task' = [task EXCEPT
                  ![t].pc = "done",
                  ![t].link = link,
                  ![t].called = (link = "ok" /\ ServerCallsBuilder(task[t].data)),
                  ![t].barg = IF link = "ok" /\ ServerCallsBuilder(task[t].data)
                              THEN ServerBuilderArg(task[t].data) ELSE Null,
                  ![t].reply = IF link = "ok"
                               THEN ServerGenerateAdaptiveCard(task[t].template, task[t].data)
                               ELSE Null,
                  ![t].out = AgentReply(task[t].template, task[t].data, link, mode)]
    /\ FORM_STORE' = IF link # "ok" /\ task[t].op = "generate_dynamic_form_card"
                     THEN [f \in DOMAIN FORM_STORE \ {task[t].fid.str} |-> FORM_STORE[f]]
                     ELSE FORM_STORE
    /\ UNCHANGED <<heap, held, issued, inbox>>

\* A tool that issues its request once more when the first one fails.
CardServerReplyRetrying(t, link, mode) ==
    /\ task[t].pc = "await"
    /\ task' = IF link # "ok" /\ task[t].requests < 2
               THEN [task EXCEPT ![t].requests = @ + 1]
               ELSE [task EXCEPT
                  ![t].pc = "done",
                  ![t].link = link,
                  ![t].called = (link = "ok" /\ ServerCallsBuilder(task[t].data)),
                  ![t].barg = IF link = "ok" /\ ServerCallsBuilder(task[t].data)
                              THEN ServerBuilderArg(task[t].data) ELSE Null,
                  ![t].reply = IF link = "ok"
                               THEN ServerGenerateAdaptiveCard(task[t].template, task[t].data)
                               ELSE Null,
                  ![t].out = AgentReply(task[t].template, task[t].data, link, mode)]
    /\ UNCHANGED <<heap, held, FORM_STORE, issued, inbox>>

\* The reply of the card server reaches the awaiting tool, which returns.
\* link is the behaviour of the transport, mode that of the tool runtime.
CardServerReply(t, link, mode) ==
    /\ task[t].pc = "await"
    /\ task' = [task EXCEPT
                  ![t].pc = "done",
                  ![t].link = link,
                  ![t].called = (link = "ok" /\ ServerCallsBuilder(task[t].data)),
                  ![t].barg = IF link = "ok" /\ ServerCallsBuilder(task[t].data)
                              THEN ServerBuilderArg(task[t].data) ELSE Null,
                  ![t].reply = IF link = "ok"
                               THEN ServerGenerateAdaptiveCard(task[t].template, task[t].data)
                               ELSE Null,
                  ![t].out = AgentReply(task[t].template, task[t].data, link, mode)]
    /\ UNCHANGED <<heap, held, FORM_STORE, issued, inbox>>

----------------------------------------------------------------------------
(* Inputs *)

\* d restricted to the keys in K.
Restrict(d, K) == Obj([k \in K |-> d.obj[k]])

\* Every dict obtained from d by leaving out some or all of its keys.
Partial(d) == { Restrict(d, K) : K \in SUBSET DOMAIN d.obj }

TemplateNames ==
    {"hero", "alert", "data_summary", "form", "list", "simple", "flight_update",
     "weather", "stock_update", "calendar_invite", "restaurant_details",
     "popup", "dynamic_form"}

FieldName ==
    Obj([id |-> Str("name"), type |-> Str("text"), label |-> Str("Full Name"),
         placeholder |-> Str("Jane"), isRequired |-> Bool(TRUE)])
FieldAge ==
    Obj([id |-> Str("age"), type |-> Str("number"), label |-> Str("Age"),
         isRequired |-> Bool(FALSE)])
FieldColor ==
    Obj([id |-> Str("color"), type |-> Str("choice"), isRequired |-> Bool(TRUE),
         options |-> Lst(<< Obj([title |-> Str("Red"), value |-> Str("red")]),
                            Obj([title |-> Str("Blue"), value |-> Str("blue")]) >>)])
FieldTerms ==
    Obj([id |-> Str("terms"), type |-> Str("checkbox"), label |-> Str("Terms"),
         isRequired |-> Bool(TRUE),
         options |-> Lst(<< Obj([title |-> Str("I agree"), value |-> Str("yes")]) >>)])

FieldPlan ==
    Obj([id |-> Str("plan"), type |-> Str("choice"), label |-> Str("Plan"),
         isMultiSelect |-> Bool(TRUE),
         options |-> Lst(<< Obj([title |-> Str("Basic"), value |-> Str("basic")]),
                            Obj([title |-> Str("Pro"), value |-> Str("pro")]) >>)])
FieldExtras ==
    Obj([id |-> Str("extras"), type |-> Str("checkbox"), label |-> Str("Extras"),
         isMultiSelect |-> Bool(FALSE)])
FieldSize ==
    Obj([id |-> Str("size"), type |-> Str("choice"), label |-> Str("Size"),
         isMultiSelect |-> Bool(FALSE)])
FieldEmail ==
    Obj([id |-> Str("email"), type |-> Str("email"), label |-> Str("Email"),
         isRequired |-> Bool(TRUE)])
FieldWhen ==
    Obj([id |-> Str("when"), type |-> Str("date"), label |-> Str("When")])

SurveyForm ==
    Obj([title |-> Str("Survey"), instructions |-> Str("Please answer."),
         fields |-> Lst(<<FieldName, FieldAge, FieldColor>>)])
SignupForm ==
    Obj([title |-> Str("Signup"), fields |-> Lst(<<FieldTerms, FieldName>>)])
EmptyForm == Obj([title |-> Str("Empty"), fields |-> EmptyList])
ChoiceForm ==
    Obj([title |-> Str("Choices"),
         fields |-> Lst(<<FieldPlan, FieldExtras, FieldColor, FieldSize, FieldTerms>>)])
ContactForm ==
    Obj([title |-> Str("Contact"),
         fields |-> Lst(<<FieldName, FieldEmail, FieldWhen, FieldAge>>)])

\* Sample data of each template, with values of the types of models.py.
SampleData(template) ==
    CASE template = "hero" ->
            { Obj([title |-> Str("Launch"), description |-> Str("We are live"),
                   imageUrl |-> Str("https://example.com/i.png"),
                   url |-> Str("https://example.com")]) }
      [] template = "alert" ->
            { Obj([severity |-> Str(s), value |-> Num(42), detail |-> Str("Disk full")]) :
                s \in {"low", "medium", "high", "HIGH", "Low"} }
      [] template = "data_summary" ->
            { Obj([title |-> Str("Q1"), total |-> Num(120), trend |-> Str("Up 10%")]) }
      [] template = "form" ->
            { Obj([title |-> Str("Your feedback")]) }
      [] template = "list" ->
            { Obj([title |-> Str("Todo"), items |-> Lst(i)]) :
                i \in { << >>,
                        << Str("milk") >>,
                        << Obj([title |-> Str("Plan"), subtitle |-> Str("today")]),
                           Obj([title |-> Str("Ship"), subtitle |-> Str("")]) >> } }
      [] template = "simple" ->
            { Obj([message |-> Str("hello")]), Obj([message |-> Str("")]) }
      [] template = "flight_update" ->
            { Obj([flightNumber |-> Str("BA42"), status |-> Str(s), gate |-> Str("B7"),
                   passenger |-> Str("Ann Lee"), boardingTime |-> Str("09:10 AM"),
                   route |-> Str("LHR > SEA")]) : s \in {"On Time", "Delayed"} }
      [] template = "weather" ->
            { Obj([city |-> Str("Seattle"), temperature |-> Num(55),
                   condition |-> Str("Rainy"), high |-> Num(58), low |-> Num(50),
                   wind |-> Str("5 mph"), iconUrl |-> Str("https://example.com/w.png")]) }
      [] template = "stock_update" ->
            { Obj([symbol |-> Str("GOOGL"), price |-> Num(140), change |-> Num(c),
                   changePoints |-> Num(3)]) : c \in {0 - 2, 0, 3} }
      [] template = "calendar_invite" ->
            { Obj([title |-> Str("Sync"), time |-> Str("10:00 AM"),
                   location |-> Str("Room 1"), organizer |-> Str("Ann"),
                   description |-> Str("Weekly"), id |-> Str("evt-1")]) }
      [] template = "restaurant_details" ->
            { Obj([name |-> Str("Umi"), rating |-> Num(4), reviews |-> Num(210),
                   cuisine |-> Str("Sushi"), price |-> Str("$$"),
                   address |-> Str("1 Pine St")]) }
            \cup
            { Obj([name |-> Str("Umi"), imageUrl |-> Str("https://example.com/r.png"),
                   url |-> Str("https://example.com/book"),
                   menuUrl |-> Str("https://example.com/menu")]) }
      [] template = "popup" ->
            { Obj([title |-> Str("Map"), text |-> Str("Open the map"),
                   buttonTitle |-> Str("Go"), url |-> Str("https://example.com/map")]) }
      [] template = "dynamic_form" ->
            { SurveyForm, SignupForm, EmptyForm }

\* Template names as a caller may spell them.
Spellings(name) == { name, Upper(name), Title(name) }
UnknownTemplates == { "totally_unknown", "", "hero ", "simple_card" }

\* Data whose present values have the documented types: a sample with some or
\* all of its keys left out.
TypedInputs ==
    UNION { { <<template, d>> : d \in UNION { Partial(s) : s \in SampleData(template) } } :
            template \in TemplateNames }

\* Sample data under another spelling of the template, or an unknown template.
SpelledInputs ==
    UNION { { <<n, d>> : n \in Spellings(template), d \in SampleData(template) } :
            template \in TemplateNames }
    \cup { <<n, d>> : n \in UnknownTemplates,
                      d \in { Obj([message |-> Str("x")]), EmptyDict,
                              Obj([title |-> Str("Launch"), text |-> Str("body text")]) } }

\* Data in the other shapes a caller may pass.
ShapedData ==
    { Str("hello"), Str(""), Str("{\"message\": "),
      Enc(Obj([message |-> Str("hi")])), Enc(Lst(<< Num(1) >>)), Enc(Num(3)),
      Enc(Str("quoted")), Enc(Null),
      Lst(<< Str("a"), Str("b") >>), EmptyList,
      Model(Obj([message |-> Str("from model")])), Model(SurveyForm),
      Num(3), Null, Bool(TRUE) }
ShapedInputs ==
    { <<n, d>> : n \in {"simple", "hero", "list", "dynamic_form", "Alert", "totally_unknown"},
                 d \in ShapedData }

\* Keys the builders read that models.py does not list.
ExtraInputs ==
    { <<"simple", d>> :
        d \in Partial(Obj([message |-> Str(""), text |-> Str("body text"),
                           content |-> Str("the content")])) }
    \cup
    { <<"list", d>> :
        d \in Partial(Obj([items |-> Lst(<< Str("milk") >>), tasks |-> Lst(<< Str("call") >>),
                           checklist |-> Lst(<< Obj([title |-> Str("pack")]) >>)]))
              \cup Partial(Obj([items |-> EmptyList, tasks |-> Lst(<< Str("call") >>),
                                checklist |-> EmptyList, title |-> Str("")])) }
    \cup
    { <<"dynamic_form", SetItem(d, "form_id", Str("uuid-1"))>> : d \in {SurveyForm, EmptyForm} }
    \cup
    { <<"dynamic_form", d>> : d \in {ChoiceForm, ContactForm, SignupForm} }
    \cup
    { <<"alert", Obj([severity |-> Str(sev)])>> : sev \in {"MEDIUM", "Medium", "critical"} }

RenderInputs == TypedInputs \cup SpelledInputs \cup ShapedInputs \cup ExtraInputs

\* The wide rendering specification: one caller renders one input, any of
\* RenderInputs, under any behaviour of the link.
InitRender == InitState /\ inbox \in RenderInputs

NextRender ==
    \/ GenerateAdaptiveCardCall(1, inbox[1], inbox[2])
    \/ \E link \in Links, mode \in RaiseModes : CardServerReply(1, link, mode)

SpecRender == InitRender /\ [][NextRender]_vars

----------------------------------------------------------------------------
(* The agent: concurrent tool calls on the shared FORM_STORE *)

\* What generate_dynamic_form_card is called with: a new dict, JSON text, or
\* a dict object the caller passed before and still holds.
FormArgs ==
    { [val |-> SurveyForm], [val |-> Enc(EmptyForm)] }
    \cup { [ref |-> r] : r \in held }

\* What generate_adaptive_card is called with.
CardCalls ==
    { <<"dynamic_form", SurveyForm>> }

\* What validate_form_submission is called with: a submission for the first
\* form with a required field left empty, and one for no stored form.
Submissions ==
    { Obj([form_id |-> Str("uuid-1"), name |-> Str("")]) }
    \cup { Obj([form_id |-> Str("nonexistent"), name |-> Str("Ann")]) }

\* Behaviours of the link in the concurrent specification.
AgentLinks == {"ok", "unreachable"}

\* Coroutine t is the next one to be called: the calls of a behaviour are
\* numbered in the order they are made, each coroutine running once.
IsNextCall(t) ==
    task[t].pc = "idle" /\ (IF t = 1 THEN TRUE ELSE task[t - 1].pc # "idle")

Next ==
    \/ \E t \in Tasks, c \in CardCalls :
          IsNextCall(t) /\ GenerateAdaptiveCardCall(t, c[1], c[2])
    \/ \E t \in Tasks, arg \in FormArgs :
          IsNextCall(t) /\ GenerateDynamicFormCardCall(t, arg)
    \/ \E t \in Tasks, s \in Submissions :
          IsNextCall(t) /\ ValidateFormSubmissionCall(t, s)
    \/ \E t \in Tasks, link \in AgentLinks, mode \in RaiseModes :
          CardServerReply(t, link, mode)

Spec == Init /\ [][Next]_vars

----------------------------------------------------------------------------
(* The form lifecycle: one caller stores forms and validates any submission *)

FormDefArgs ==
    { [val |-> SurveyForm], [val |-> Model(SignupForm)],
      [val |-> Str("a form please")], [val |-> EmptyList] }

\* The dict with exactly the keys whose value in choice is not "absent".
Present(choice) ==
    Obj([k \in { x \in DOMAIN choice : choice[x] # Str("absent") } |-> choice[k]])

FormIdChoices ==
    { Str(u) : u \in UUIDs } \cup { Str("absent"), Str(""), Str("nonexistent"), Null }

WideSubmissions ==
    { Present([form_id |-> f, name |-> n, age |-> a, color |-> c, terms |-> x]) :
        f \in FormIdChoices,
        n \in { Str("absent"), Null, Str(""), Str("Ann"), Num(0) },
        a \in { Str("absent"), Num(7) },
        c \in { Str("absent"), Str(""), Str("red") },
        x \in { Str("absent"), Str("yes") } }
    \cup { Enc(Obj([form_id |-> Str(u), name |-> Str("Ann"), color |-> Str("red")])) :
            u \in UUIDs }
    \cup { Str("not a submission"), Lst(<< Str("name") >>), Null }

\* One caller stores forms and validates one submission, any of
\* WideSubmissions, at any point in between.
InitForm == InitState /\ inbox \in WideSubmissions

NextForm ==
    \/ \E arg \in FormDefArgs : GenerateDynamicFormCardCall(1, arg)
    \/ ValidateFormSubmissionCall(1, inbox)
    \/ \E link \in Links, mode \in RaiseModes : CardServerReply(1, link, mode)

SpecForm == InitForm /\ [][NextForm]_vars

----------------------------------------------------------------------------
(* Properties *)

\* A returned call of the given tool.
Returned(t, op) == task[t].pc = "done" /\ task[t].op = op

\* text is the JSON of a card document: type "AdaptiveCard", non-empty body.
IsCardText(text) ==
    /\ "enc" \in DOMAIN text
    /\ IsDict(text.enc)
    /\ {"type", "body"} \subseteq DOMAIN text.enc.obj
    /\ text.enc.obj["type"] = Str("AdaptiveCard")
    /\ IsList(text.enc.obj["body"])
    /\ Len(text.enc.obj["body"].list) > 0

\* The keys models.py documents for the data of each template, each with the
\* literal default of the builder (None where the builder names no literal).
DocumentedDefaults(template) ==
    CASE template = "hero" ->
            [title |-> Str("Hero Card"), description |-> Str("Description goes here..."),
             imageUrl |-> Str("https://picsum.photos/400/200"),
             url |-> Str("https://adaptivecards.io")]
      [] template = "alert" ->
            [severity |-> Str("low"), value |-> Num(0), detail |-> Str("No details provided.")]
      [] template = "data_summary" ->
            [title |-> Str("Data Summary"), total |-> Num(0), trend |-> Str("Stable")]
      [] template = "form" -> [title |-> Str("Feedback Form")]
      [] template = "list" -> [title |-> Str("Item List"), items |-> EmptyList]
      [] template = "simple" -> [message |-> Str("No content provided.")]
      [] template = "flight_update" ->
            [flightNumber |-> Str("UA123"), route |-> Str("SFO > JFK"),
             status |-> Str("On Time"), passenger |-> Str("John Doe"),
             gate |-> Str("TBD"), boardingTime |-> Str("12:00 PM")]
      [] template = "weather" ->
            [city |-> Str("Unknown"), temperature |-> Str("72"), condition |-> Str("Sunny"),
             iconUrl |-> Str("https://openweathermap.org/img/wn/10d@2x.png"),
             high |-> Str("75"), low |-> Str("60"), wind |-> Str("10 mph")]
      [] template = "stock_update" ->
            [change |-> Num(0), symbol |-> Str("MSFT"), price |-> Str("0.00"),
             changePoints |-> Str("0.00")]
      [] template = "calendar_invite" ->
            [title |-> Str("Team Meeting"), time |-> Str("10:00 AM - 11:00 AM"),
             location |-> Str("Room 404"), organizer |-> Str("Alok Pandit"),
             description |-> Str("Agenda tbd..."), id |-> Null]
      [] template = "restaurant_details" ->
            [name |-> Str("Restaurant Name"), rating |-> Str("4.5"), reviews |-> Str("100"),
             cuisine |-> Str("American"), price |-> Str("$$$"),
             address |-> Str("123 Main St, City"),
             imageUrl |-> Str("https://adaptivecards.io/content/cats/2.png"),
             url |-> Str("https://opentable.com"), menuUrl |-> Str("https://opentable.com")]
      [] template = "popup" ->
            [title |-> Str("Tool"), text |-> Str("Click button to open."),
             buttonTitle |-> Str("Open"), url |-> Str("about:blank")]
      [] template = "dynamic_form" ->
            [title |-> Str("Dynamic Form"), instructions |-> Null, fields |-> EmptyList]

\* C1: for each of the 13 template names and every mapping whose present
\* values have the documented types, with any documented keys missing, the
\* server's generate_adaptive_card does not raise, returns a document of type
\* "AdaptiveCard" with a non-empty body, and the document is the one the
\* mapping gives with each missing key set to the builder's literal default.
C1_TotalWithLiteralDefaults ==
    \A t \in Tasks :
        ( /\ Returned(t, "generate_adaptive_card")
          /\ task[t].link = "ok"
          /\ <<task[t].template, task[t].input>> \in TypedInputs )
        => /\ ~IsRaised(task[t].reply)
           /\ IsCardText(task[t].reply)
           /\ \A k \in DOMAIN DocumentedDefaults(task[t].template) \ DOMAIN task[t].input.obj :
                task[t].reply =
                    ServerGenerateAdaptiveCard(task[t].template,
                        JsonDumps(SetItem(task[t].input, k,
                                          DocumentedDefaults(task[t].template)[k])))

\* text is the JSON of the fallback document: type "AdaptiveCard", the error
\* heading and a message in the body, and one retry action.
IsFallbackText(text) ==
    /\ IsCardText(text)
    /\ Len(text.enc.obj["body"].list) = 2
    /\ text.enc.obj["body"].list[1].obj["text"] = Str("Adaptive Card Generation Error")
    /\ "actions" \in DOMAIN text.enc.obj
    /\ IsList(text.enc.obj["actions"])
    /\ Len(text.enc.obj["actions"].list) = 1
    /\ text.enc.obj["actions"].list[1].obj["data"].obj["action"] = Str("retry")

RetryData(text) == text.enc.obj["actions"].list[1].obj["data"].obj

\* C2: for every data string that is not valid JSON and every template name,
\* the agent's generate_adaptive_card does not raise and returns a fallback
\* document whose template and originalData equal the inputs.
C2_InvalidJsonGivesFallbackOfInputs ==
    \A t \in Tasks :
        ( /\ Returned(t, "generate_adaptive_card")
          /\ "str" \in DOMAIN task[t].input )
        => /\ ~IsRaised(task[t].out)
           /\ IsFallbackText(task[t].out)
           /\ RetryData(task[t].out)["template"] = Str(task[t].template)
           /\ RetryData(task[t].out)["originalData"] = task[t].input

\* C3: whatever the shape of the data input, the value a template builder is
\* called with is a mapping.
C3_BuilderReceivesMapping ==
    \A t \in Tasks :
        (task[t].pc = "done" /\ task[t].called) => IsDict(task[t].barg)

\* The builder of each template name.
NamedBuilder(name, d) ==
    CASE name = "hero" -> create_hero_card(d)
      [] name = "alert" -> create_alert_card(d)
      [] name = "data_summary" -> create_data_summary_card(d)
      [] name = "form" -> create_form_card(d)
      [] name = "list" -> create_list_card(d)
      [] name = "simple" -> create_simple_card(d)
      [] name = "flight_update" -> create_flight_update_card(d)
      [] name = "weather" -> create_weather_card(d)
      [] name = "stock_update" -> create_stock_update_card(d)
      [] name = "calendar_invite" -> create_calendar_invite_card(d)
      [] name = "restaurant_details" -> create_restaurant_details_card(d)
      [] name = "popup" -> create_popup_card(d)
      [] name = "dynamic_form" -> create_dynamic_form(d)

\* The outcome of the named builder on the value of JSON text data.
NamedBuilderOutcome(name, data) ==
    IF IsRaised(NamedBuilder(name, JsonLoads(data).val))
    THEN NamedBuilder(name, JsonLoads(data).val)
    ELSE JsonDumps(NamedBuilder(name, JsonLoads(data).val))

\* C4: template dispatch is a case-insensitive exact match: the server's
\* reply for (t, d) is the output of the builder named lower(t) when lower(t)
\* is one of the 13 names, and the reply for ("simple", d) otherwise; an
\* unknown name with mapping data yields a card, never an error.
C4_DispatchByLowercaseName ==
    \A t \in Tasks :
        ( /\ Returned(t, "generate_adaptive_card")
          /\ task[t].link = "ok" )
        => /\ ( JsonLoads(task[t].data).ok /\ Lower(task[t].template) \in TemplateNames )
                => task[t].reply = NamedBuilderOutcome(Lower(task[t].template), task[t].data)
           /\ ( Lower(task[t].template) \notin TemplateNames )
                => /\ task[t].reply = ServerGenerateAdaptiveCard("simple", task[t].data)
                   /\ IsDict(task[t].input) => IsCardText(task[t].reply)

\* A template spelled in another case than its name was rendered as a card.
C4_Witness ==
    \E t \in Tasks :
        /\ Returned(t, "generate_adaptive_card")
        /\ task[t].link = "ok"
        /\ task[t].template \notin TemplateNames
        /\ Lower(task[t].template) = "flight_update"
        /\ IsCardText(task[t].reply)
        /\ task[t].reply # ServerGenerateAdaptiveCard("simple", task[t].data)

IsStoreStep(t) ==
    /\ task[t].pc # "await"
    /\ task'[t] # task[t]
    /\ task'[t].op = "generate_dynamic_form_card"

\* C6: in every interleaving of generate_dynamic_form_card calls, each call
\* gets an identifier that no earlier or concurrent call got, attaches it to
\* its definition and inserts the definition under it as a new key, leaving
\* every other key bound to the object it was bound to.
C6_FreshIdentifierPerStore ==
    [][ \A t \in Tasks :
          IsStoreStep(t) =>
            /\ task'[t].fid.str \notin issued
            /\ \A t2 \in Tasks \ {t} :
                  task[t2].op = "generate_dynamic_form_card" => task[t2].fid # task'[t].fid
            /\ task'[t].pc = "await" =>
                  /\ task'[t].fid.str \notin DOMAIN FORM_STORE
                  /\ task'[t].fid.str \in DOMAIN FORM_STORE'
                  /\ heap'[FORM_STORE'[task'[t].fid.str]].obj["form_id"] = task'[t].fid
                  /\ \A g \in DOMAIN FORM_STORE :
                        g \in DOMAIN FORM_STORE' /\ FORM_STORE'[g] = FORM_STORE[g]
      ]_vars

\* Two calls are in flight at once, each with its own entry in the store.
C6_Witness ==
    \E t1, t2 \in Tasks :
        /\ t1 # t2
        /\ task[t1].op = "generate_dynamic_form_card" /\ task[t1].pc = "await"
        /\ task[t2].op = "generate_dynamic_form_card" /\ task[t2].pc = "await"
        /\ task[t1].fid # task[t2].fid
        /\ {task[t1].fid.str, task[t2].fid.str} \subseteq DOMAIN FORM_STORE

\* C7: a definition inserted into FORM_STORE is never mutated and never
\* deleted: after any call the store maps its identifier to the same content.
C7_StoredDefinitionNeverChanges ==
    [][ \A f \in DOMAIN FORM_STORE :
            /\ f \in DOMAIN FORM_STORE'
            /\ heap'[FORM_STORE'[f]] = heap[FORM_STORE[f]]
      ]_vars

\* The text of the single block of a "simple" document, for a reply text.
SimpleDocText(text) == text.enc.obj["body"].list[1].obj["text"]

\* text is the JSON of a "simple" document: a card with exactly one block.
IsSimpleDoc(text) ==
    IsCardText(text) /\ Len(text.enc.obj["body"].list) = 1

\* The label validation names field by: its label, its id when it has none.
LabelOf(field) ==
    IF "label" \in DOMAIN field.obj THEN field.obj["label"].str ELSE field.obj["id"].str

IsRequiredField(field) ==
    "isRequired" \in DOMAIN field.obj /\ field.obj["isRequired"] = Bool(TRUE)

\* The submission sd carries no value for the field, or null, or "".
Omits(sd, field) == field.obj["id"].str \notin DOMAIN sd.obj
IsBlank(sd, field) ==
    \/ Omits(sd, field)
    \/ sd.obj[field.obj["id"].str] = Null
    \/ sd.obj[field.obj["id"].str] = Str("")

\* C8: after a definition was stored under f, validating a submission with
\* form_id f and a non-empty value for every required field returns the
\* success document naming the form's title, and validating one that omits
\* exactly one required field returns the failure document listing that
\* field's label and no other.
C8_FormLifecycle ==
    \A t \in Tasks :
        ( /\ Returned(t, "validate_form_submission")
          /\ task[t].link = "ok"
          /\ task[t].defn # Null )
        => LET sd == SubmissionDict(task[t].input)
               fields == task[t].defn.obj["fields"].list
               Req == { i \in DOMAIN fields : IsRequiredField(fields[i]) }
           IN /\ IsSimpleDoc(task[t].out)
              /\ (\A i \in Req : ~IsBlank(sd, fields[i]))
                    => SimpleDocText(task[t].out) =
                         Str("Success! Your submission for '"
                             \o task[t].defn.obj["title"].str
                             \o "' has been validated.")
              /\ \A i \in Req :
                    ( /\ Omits(sd, fields[i])
                      /\ \A j \in Req \ {i} : ~IsBlank(sd, fields[j]) )
                    => SimpleDocText(task[t].out) =
                         Str("Validation Failed:\n- " \o LabelOf(fields[i])
                             \o " is required.")

\* A stored form with two required fields was validated with exactly one of
\* them omitted, and the failure names that field.
C8_Witness ==
    \E t \in Tasks :
        /\ Returned(t, "validate_form_submission")
        /\ task[t].link = "ok"
        /\ task[t].defn # Null
        /\ task[t].defn.obj["title"] = Str("Survey")
        /\ "name" \in DOMAIN SubmissionDict(task[t].input).obj
        /\ "color" \notin DOMAIN SubmissionDict(task[t].input).obj
        /\ "age" \notin DOMAIN SubmissionDict(task[t].input).obj
        /\ SimpleDocText(task[t].out) = Str("Validation Failed:\n- color is required.")

\* The form_id of submission sd is absent, empty, or not a key of the store.
NamesNoStoredForm(sd) ==
    \/ "form_id" \notin DOMAIN sd.obj
    \/ sd.obj["form_id"] \in {Null, Str("")}
    \/ sd.obj["form_id"].str \notin DOMAIN FORM_STORE

FailureHeader == "Validation Failed:"

\* message begins with the header of a field-level failure.
IsFieldLevelFailure(message) ==
    Len(message) >= Len(FailureHeader)
    /\ SubSeq(message, 1, Len(FailureHeader)) = FailureHeader

\* The message a validation handed to the "simple" template.
RequestedMessage(r) == r.data.enc.obj["message"].str

\* C9: validating a submission whose form_id is absent, empty or not a key of
\* FORM_STORE asks for the "Form session ... not found or expired" document,
\* whose message is not a field-level "Validation Failed" message, reads no
\* definition and leaves FORM_STORE unchanged; the document returned carries
\* that message.
C9_SessionNotFound ==
    [][ \A t \in Tasks :
          /\ ( /\ task[t].pc # "await"
               /\ task'[t] # task[t]
               /\ task'[t].op = "validate_form_submission"
               /\ IsDict(SubmissionDict(task'[t].input))
               /\ NamesNoStoredForm(SubmissionDict(task'[t].input)) )
             => /\ RequestedMessage(task'[t]) =
                      "Error: Form session '"
                      \o (IF "form_id" \in DOMAIN SubmissionDict(task'[t].input).obj
                             /\ SubmissionDict(task'[t].input).obj["form_id"] # Null
                          THEN SubmissionDict(task'[t].input).obj["form_id"].str
                          ELSE "None")
                      \o "' not found or expired."
                /\ ~IsFieldLevelFailure(RequestedMessage(task'[t]))
                /\ task'[t].defn = Null
                /\ FORM_STORE' = FORM_STORE
                /\ heap' = heap
          /\ ( /\ task[t].pc = "await"
               /\ task[t].op = "validate_form_submission"
               /\ task'[t].pc = "done"
               /\ task'[t].link = "ok" )
             => /\ IsSimpleDoc(task'[t].out)
                /\ SimpleDocText(task'[t].out) = Str(RequestedMessage(task[t]))
      ]_vars

\* With a form in the store, a submission naming another session got the
\* not-found document.
C9_Witness ==
    \E t \in Tasks :
        /\ Returned(t, "validate_form_submission")
        /\ task[t].link = "ok"
        /\ DOMAIN FORM_STORE # {}
        /\ IsDict(task[t].input)
        /\ "form_id" \in DOMAIN task[t].input.obj
        /\ task[t].input.obj["form_id"] = Str("nonexistent")
        /\ SimpleDocText(task[t].out) =
              Str("Error: Form session 'nonexistent' not found or expired.")

\* The lines of a failure message for the given fields, one per field.
RECURSIVE FailureLines(_)
FailureLines(fields) ==
    IF Len(fields) = 0 THEN ""
    ELSE "\n- " \o LabelOf(Head(fields)) \o " is required." \o FailureLines(Tail(fields))

\* C10: for a found form the failure message is the header line followed by
\* exactly one line per required field whose submitted value is absent, null
\* or the empty string, in the order of the stored definition, each naming
\* the field by its label; no other field produces a line, and without such
\* a field the message is not a failure message.
C10_FailComplete ==
    \A t \in Tasks :
        ( /\ task[t].op = "validate_form_submission"
          /\ task[t].defn # Null )
        => LET sd == SubmissionDict(task[t].input)
               IsMissing(field) == IsRequiredField(field) /\ IsBlank(sd, field)
               missing == SelectSeq(task[t].defn.obj["fields"].list, IsMissing)
           IN IF Len(missing) > 0
              THEN RequestedMessage(task[t]) = FailureHeader \o FailureLines(missing)
              ELSE ~IsFieldLevelFailure(RequestedMessage(task[t]))

\* A validation reported two missing required fields, one of them submitted
\* as the empty string, and passed over an absent optional one.
C10_Witness ==
    \E t \in Tasks :
        /\ task[t].op = "validate_form_submission"
        /\ task[t].defn # Null
        /\ task[t].defn.obj["title"] = Str("Survey")
        /\ IsDict(task[t].input)
        /\ "name" \in DOMAIN task[t].input.obj
        /\ task[t].input.obj["name"] = Str("")
        /\ "color" \notin DOMAIN task[t].input.obj
        /\ "age" \notin DOMAIN task[t].input.obj
        /\ RequestedMessage(task[t]) =
             "Validation Failed:\n- Full Name is required.\n- color is required."

\* The request of a validation is one render request of the "simple" template
\* whose data is the JSON of a dict holding just a message.
IsSimpleRequest(r) ==
    /\ r.pc \in {"await", "done"}
    /\ r.template = "simple"
    /\ "enc" \in DOMAIN r.data
    /\ IsDict(r.data.enc)
    /\ DOMAIN r.data.enc.obj = {"message"}
    /\ IsStr(r.data.enc.obj["message"])

\* C11: every outcome of validate_form_submission (invalid submission,
\* session not found, field-level failure, success) is produced by exactly one
\* render request with template "simple": the call issues the request, the
\* request is never changed or issued again, and what the caller receives is
\* a card document carrying the message, never a bare value or an exception.
C11_ValidateAnswersWithDocument ==
    [][ \A t \in Tasks :
          ( /\ task'[t].op = "validate_form_submission"
            /\ task'[t] # task[t] )
          => /\ IsSimpleRequest(task'[t])
             /\ \/ task[t].pc # "await" /\ task'[t].pc = "await"
                \/ /\ task[t].pc = "await" /\ task'[t].pc = "done"
                   /\ task'[t].op = task[t].op
                   /\ task'[t].template = task[t].template
                   /\ task'[t].data = task[t].data
             /\ task'[t].pc = "done" =>
                   /\ ~IsRaised(task'[t].out)
                   /\ IsCardText(task'[t].out)
                   /\ IF task'[t].link = "ok"
                      THEN /\ IsSimpleDoc(task'[t].out)
                           /\ SimpleDocText(task'[t].out) = task[t].data.enc.obj["message"]
                      ELSE IsFallbackText(task'[t].out)
      ]_vars

\* A submission that is no dict was answered with the invalid-submission
\* document.
C11_Witness ==
    \E t \in Tasks :
        /\ Returned(t, "validate_form_submission")
        /\ task[t].link = "ok"
        /\ ~IsDict(SubmissionDict(task[t].input))
        /\ IsSimpleDoc(task[t].out)
        /\ SimpleDocText(task[t].out) = Str(InvalidSubmissionMessage)

\* The coroutines whose generate_dynamic_form_card call issued identifier f.
StoreCallsOf(f) ==
    { s \in Tasks : task[s].op = "generate_dynamic_form_card" /\ task[s].fid = f }

\* C12: under any interleaving of generate_dynamic_form_card and
\* validate_form_submission calls, a validation that begins after the store
\* call for identifier f has returned finds f's definition: it does not
\* report session-not-found, and the definition it reads is complete, with
\* every key, the title and the fields of the definition that was stored.
C12_ValidateSeesCompletedStore ==
    \A t \in Tasks :
        ( /\ task[t].op = "validate_form_submission"
          /\ task[t].seen )
        => LET f == SubmissionDict(task[t].input).obj["form_id"]
           IN /\ task[t].defn # Null
              /\ RequestedMessage(task[t]) # SessionNotFoundMessage(f)
              /\ \A s \in StoreCallsOf(f) :
                    LET given == FormDataDict(task[s].input)
                    IN /\ DOMAIN given.obj \cup {"form_id"} = DOMAIN task[t].defn.obj
                       /\ \A k \in DOMAIN given.obj \ {"form_id"} :
                             task[t].defn.obj[k] = given.obj[k]

\* A validation began after the store call of its form had returned, while
\* another store call was still in flight, and read the definition.
C12_Witness ==
    \E t, s, u \in Tasks :
        /\ task[t].op = "validate_form_submission"
        /\ task[t].seen
        /\ task[t].defn # Null
        /\ s \in StoreCallsOf(SubmissionDict(task[t].input).obj["form_id"])
        /\ task[s].pc = "done"
        /\ task[u].op = "generate_dynamic_form_card"
        /\ task[u].pc = "await"
        /\ "fields" \in DOMAIN task[t].defn.obj

\* C13: a rendering-layer error is terminal for its request: a call of the
\* agent's generate_adaptive_card issues one call_tool request and no more,
\* and the step that brings the answer of that request, failed or without
\* content included, makes the call return without issuing it again.
C13_NoRetryInsideTheEngine ==
    [][ \A t \in Tasks :
          /\ ( /\ task'[t].op = "generate_adaptive_card"
               /\ task'[t].pc \in {"await", "done"} )
             => task'[t].requests = 1
          /\ ( /\ task[t].op = "generate_adaptive_card"
               /\ task[t].pc = "await"
               /\ task'[t] # task[t] )
             => /\ task'[t].pc = "done"
                /\ task'[t].requests = task[t].requests
                /\ task'[t].template = task[t].template
                /\ task'[t].data = task[t].data
                /\ task'[t].link # "ok" => IsFallbackText(task'[t].out)
      ]_vars

\* A call whose only request could not reach the card server has returned.
C13_Witness ==
    \E t \in Tasks :
        /\ Returned(t, "generate_adaptive_card")
        /\ task[t].link = "unreachable"
        /\ task[t].requests = 1
        /\ IsFallbackText(task[t].out)

\* text is the fallback document for the request (template, serialized_data):
\* type, schema and version, a body of the error heading and a message, and
\* one action, the retry action carrying the request.
IsFallbackOf(text, template, serialized_data) ==
    /\ IsFallbackText(text)
    /\ DOMAIN text.enc.obj = {"type", "$schema", "version", "body", "actions"}
    /\ IsStr(text.enc.obj["$schema"])
    /\ IsStr(text.enc.obj["version"])
    /\ IsStr(text.enc.obj["body"].list[2].obj["text"])
    /\ text.enc.obj["actions"].list[1].obj["title"] = Str("Retry")
    /\ RetryData(text) = [action |-> Str("retry"),
                          template |-> Str(template),
                          originalData |-> serialized_data]

\* C14: when the card server cannot be reached, raises, or returns no text
\* content, the agent's generate_adaptive_card returns the fallback document
\* whose retry action carries the requested template and the serialized data
\* that was sent.
C14_FailureGivesFallback ==
    \A t \in Tasks :
        ( /\ Returned(t, "generate_adaptive_card")
          /\ \/ task[t].link \in {"unreachable", "nocontent"}
             \/ IsRaised(task[t].reply) )
        => IsFallbackOf(task[t].out, task[t].template, task[t].data)

\* A "list" request with a dict as data was answered by the card server.
ListRendered(t) ==
    /\ Returned(t, "generate_adaptive_card")
    /\ task[t].template = "list"
    /\ task[t].link = "ok"
    /\ IsDict(task[t].input)

\* The value under the first of the keys items, tasks, checklist that data
\* contains, the empty list when it contains none.
FirstPresentList(data) ==
    IF "items" \in DOMAIN data.obj THEN data.obj["items"]
    ELSE IF "tasks" \in DOMAIN data.obj THEN data.obj["tasks"]
    ELSE IF "checklist" \in DOMAIN data.obj THEN data.obj["checklist"]
    ELSE EmptyList

\* data with its list keys replaced by the single key items holding list.
WithOnlyItems(data, list) ==
    SetItem(Restrict(data, DOMAIN data.obj \ {"items", "tasks", "checklist"}),
            "items", list)

\* C15: list builder key precedence is first-present-wins over (items, tasks,
\* checklist): the document is the one rendered from the first key present
\* alone, whatever its value, the later keys being ignored.
C15_FirstPresentListKeyWins ==
    \A t \in Tasks :
        ListRendered(t)
        => task[t].reply =
             ServerGenerateAdaptiveCard("list",
                 JsonDumps(WithOnlyItems(task[t].input, FirstPresentList(task[t].input))))

\* The list the builder selected: the first non-empty one among the values
\* of items, tasks and checklist, the empty list when there is none.
SelectedList(data) ==
    LET under(k) == IF k \in DOMAIN data.obj THEN data.obj[k] ELSE EmptyList
    IN IF Len(under("items").list) > 0 THEN under("items")
       ELSE IF Len(under("tasks").list) > 0 THEN under("tasks")
       ELSE under("checklist")

\* block is the container of item: the title of the item, then its subtitle
\* when the item is an object with a non-empty subtitle, and nothing else.
IsContainerOf(block, item) ==
    LET shown == block.obj["items"].list
        subtitle == IF IsDict(item) /\ "subtitle" \in DOMAIN item.obj
                    THEN item.obj["subtitle"] ELSE Str("")
    IN /\ block.obj["type"] = Str("Container")
       /\ shown[1].obj["text"] = (IF IsDict(item) THEN item.obj["title"] ELSE item)
       /\ IF subtitle = Str("")
          THEN Len(shown) = 1
          ELSE Len(shown) = 2 /\ shown[2].obj["text"] = subtitle

\* C16: the body of a list card is the title block followed by exactly one
\* "(No items found)" block when the selected list is empty or no list key is
\* present, and otherwise by exactly one container per item in input order,
\* title-only for a string item, with a subtitle block for an object item
\* only when its subtitle is non-empty; the body is never just the title.
C16_ListBody ==
    \A t \in Tasks :
        ListRendered(t)
        => LET body == task[t].reply.enc.obj["body"].list
               sel == SelectedList(task[t].input).list
           IN /\ Len(body) >= 2
              /\ body[1].obj["type"] = Str("TextBlock")
              /\ IF Len(sel) = 0
                 THEN /\ Len(body) = 2
                      /\ body[2].obj["type"] = Str("TextBlock")
                      /\ body[2].obj["text"] = Str("(No items found)")
                 ELSE /\ Len(body) = 1 + Len(sel)
                      /\ \A i \in DOMAIN sel : IsContainerOf(body[i + 1], sel[i])

\* A list of two objects, one with a subtitle and one with an empty one, was
\* rendered as two containers.
C16_Witness ==
    \E t \in Tasks :
        /\ ListRendered(t)
        /\ "items" \in DOMAIN task[t].input.obj
        /\ Len(task[t].input.obj["items"].list) = 2
        /\ task[t].input.obj["items"].list[2] =
              Obj([title |-> Str("Ship"), subtitle |-> Str("")])
        /\ Len(task[t].reply.enc.obj["body"].list) = 3
        /\ Len(task[t].reply.enc.obj["body"].list[2].obj["items"].list) = 2
        /\ Len(task[t].reply.enc.obj["body"].list[3].obj["items"].list) = 1

\* An "alert" request with a dict as data was answered by the card server.
AlertRendered(t) ==
    /\ Returned(t, "generate_adaptive_card")
    /\ task[t].template = "alert"
    /\ task[t].link = "ok"
    /\ IsDict(task[t].input)

\* The severity the data names, whatever the case it is written in; a
\* missing severity is low.
SeverityNamed(data) ==
    LET s == IF "severity" \in DOMAIN data.obj THEN data.obj["severity"].str ELSE "low"
    IN IF s \in {"low", "Low", "LOW"} THEN "low"
       ELSE IF s \in {"medium", "Medium", "MEDIUM"} THEN "medium"
       ELSE IF s \in {"high", "High", "HIGH"} THEN "high"
       ELSE s

\* The actions of a card document: the empty sequence when the list is
\* absent, null or empty.
ActionsOf(text) ==
    IF "actions" \in DOMAIN text.enc.obj /\ IsList(text.enc.obj["actions"])
    THEN text.enc.obj["actions"].list ELSE << >>

\* C17: the alert builder compares severity case-insensitively, low when
\* missing: low gives the neutral tier and no action, medium the warning tier
\* and high the critical tier, each with exactly one action, "Acknowledge";
\* the Acknowledge action is present if and only if severity is not low.
C17_AlertSeverityTiers ==
    \A t \in Tasks :
        AlertRendered(t)
        => LET sev == SeverityNamed(task[t].input)
               tier == task[t].reply.enc.obj["body"].list[1].obj["color"]
               actions == ActionsOf(task[t].reply)
               acknowledge == { i \in DOMAIN actions :
                                   actions[i].obj["title"] = Str("Acknowledge") }
           IN /\ sev = "low" => tier = Str("Good") /\ Len(actions) = 0
              /\ sev = "medium" => tier = Str("Warning")
              /\ sev = "high" => tier = Str("Attention")
              /\ sev \in {"medium", "high"} => Len(actions) = 1 /\ acknowledge = {1}
              /\ (acknowledge # {}) <=> (sev # "low")

\* Severity "HIGH" was rendered in the critical tier with its action, and
\* the card says so in upper case.
C17_Witness ==
    \E t \in Tasks :
        /\ AlertRendered(t)
        /\ "severity" \in DOMAIN task[t].input.obj
        /\ task[t].input.obj["severity"] = Str("HIGH")
        /\ task[t].reply.enc.obj["body"].list[1].obj["color"] = Str("Attention")
        /\ Len(ActionsOf(task[t].reply)) = 1

\* A "stock_update" request with a dict as data was answered by the card server.
StockRendered(t) ==
    /\ Returned(t, "generate_adaptive_card")
    /\ task[t].template = "stock_update"
    /\ task[t].link = "ok"
    /\ IsDict(task[t].input)

\* The block of a stock card that shows the change.
ChangeBlock(text) ==
    text.enc.obj["body"].list[2].obj["items"].list[2].obj["columns"].list[2]
        .obj["items"].list[1].obj

UpArrow == "<U+25B2>"
DownArrow == "<U+25BC>"

\* s begins with prefix.
StartsWith(s, prefix) ==
    Len(s) >= Len(prefix) /\ SubSeq(s, 1, Len(prefix)) = prefix

\* C18: in a stock card a change >= 0, a missing change counting as 0, is
\* shown in the colour "Good" with the up arrow and a change < 0 in the colour
\* "Attention" with the down arrow; the magnitude shown is the absolute value
\* of change; colour and arrow always agree.
C18_StockChangeSign ==
    \A t \in Tasks :
        StockRendered(t)
        => LET change == IF "change" \in DOMAIN task[t].input.obj
                         THEN task[t].input.obj["change"].num ELSE 0
               block == ChangeBlock(task[t].reply)
               shown == block["text"].str
               magnitude == IntStr(IF change < 0 THEN 0 - change ELSE change) \o ".0%"
           IN /\ change >= 0 =>
                    /\ block["color"] = Str("Good")
                    /\ StartsWith(shown, UpArrow \o " " \o magnitude)
              /\ change < 0 =>
                    /\ block["color"] = Str("Attention")
                    /\ StartsWith(shown, DownArrow \o " " \o magnitude)
              /\ (block["color"] = Str("Good")) <=> StartsWith(shown, UpArrow)
              /\ (block["color"] = Str("Attention")) <=> StartsWith(shown, DownArrow)

\* A negative change was rendered with the down arrow and its magnitude.
C18_Witness ==
    \E t \in Tasks :
        /\ StockRendered(t)
        /\ "change" \in DOMAIN task[t].input.obj
        /\ task[t].input.obj["change"].num < 0
        /\ ChangeBlock(task[t].reply)["color"] = Str("Attention")
        /\ StartsWith(ChangeBlock(task[t].reply)["text"].str, DownArrow \o " 2.0%")

\* A "dynamic_form" request with a dict as data was answered by the card server.
FormRendered(t) ==
    /\ Returned(t, "generate_adaptive_card")
    /\ task[t].template = "dynamic_form"
    /\ task[t].link = "ok"
    /\ IsDict(task[t].input)
    /\ "fields" \in DOMAIN task[t].input.obj

\* The elements of a card body that carry the identifier id, in body order.
ElementsWithId(body, id) ==
    LET carries(b) == "id" \in DOMAIN b.obj /\ b.obj["id"] = id
    IN SelectSeq(body, carries)

\* The value of a boolean flag of a field, false when the field lacks it.
Flag(field, name) ==
    IF name \in DOMAIN field.obj THEN field.obj[name] ELSE Bool(FALSE)

\* The option list of a field, empty when the field has none.
OptionsOf(field) ==
    IF "options" \in DOMAIN field.obj THEN field.obj["options"].list ELSE << >>

\* C19: in a dynamic form a field of type checkbox renders as a multi-select
\* choice set of style "expanded" whatever its multi-select flag, a field of
\* type choice as a choice set of style "compact" that is multi-select if and
\* only if its flag is set; the choices are the field's options in input
\* order, none when the field has no option list.
C19_ChoiceSetRule ==
    \A t \in Tasks :
        FormRendered(t)
        => LET fields == task[t].input.obj["fields"].list
               body == task[t].reply.enc.obj["body"].list
           IN \A i \in DOMAIN fields :
                fields[i].obj["type"].str \in {"choice", "checkbox"}
                => LET found == ElementsWithId(body, fields[i].obj["id"])
                       set == found[1].obj
                       options == OptionsOf(fields[i])
                   IN /\ Len(found) = 1
                      /\ set["type"] = Str("Input.ChoiceSet")
                      /\ IF fields[i].obj["type"].str = "checkbox"
                         THEN /\ set["isMultiSelect"] = Bool(TRUE)
                              /\ set["style"] = Str("expanded")
                         ELSE /\ set["isMultiSelect"] = Flag(fields[i], "isMultiSelect")
                              /\ set["style"] = Str("compact")
                      /\ Len(set["choices"].list) = Len(options)
                      /\ \A j \in DOMAIN options :
                            /\ set["choices"].list[j].obj["title"] = options[j].obj["title"]
                            /\ set["choices"].list[j].obj["value"] = options[j].obj["value"]

\* A form was rendered with a checkbox whose flag is off and which has no
\* options, and a choice whose flag is on.
C19_Witness ==
    \E t \in Tasks :
        /\ FormRendered(t)
        /\ task[t].input = ChoiceForm
        /\ LET body == task[t].reply.enc.obj["body"].list
           IN /\ ElementsWithId(body, Str("extras"))[1].obj["isMultiSelect"] = Bool(TRUE)
              /\ ElementsWithId(body, Str("extras"))[1].obj["choices"] = EmptyList
              /\ ElementsWithId(body, Str("plan"))[1].obj["isMultiSelect"] = Bool(TRUE)
              /\ ElementsWithId(body, Str("size"))[1].obj["isMultiSelect"] = Bool(FALSE)

\* The elements of a card body that carry an identifier: the input elements.
InputElements(body) ==
    LET isInput(b) == "id" \in DOMAIN b.obj
    IN SelectSeq(body, isInput)

\* The positions of body at which block stands.
PositionsOf(body, block) == { p \in DOMAIN body : body[p] = block }

\* C20: in a dynamic form every field, whatever its type value, contributes a
\* label block followed by one input element that carries the field's
\* identifier, its required flag and an error message derived from the
\* field's label, so the body holds exactly one input element per field, in
\* field order.
C20_OneInputPerField ==
    \A t \in Tasks :
        FormRendered(t)
        => LET fields == task[t].input.obj["fields"].list
               body == task[t].reply.enc.obj["body"].list
               inputs == InputElements(body)
           IN /\ Len(inputs) = Len(fields)
              /\ \A i \in DOMAIN fields :
                    LET label == LabelOf(fields[i])
                        element == inputs[i]
                    IN /\ element.obj["id"] = fields[i].obj["id"]
                       /\ element.obj["isRequired"] = Flag(fields[i], "isRequired")
                       /\ element.obj["errorMessage"]
                             \in { Str(label \o " is required"), Str("Please select " \o label) }
                       /\ \E p \in PositionsOf(body, element) :
                             /\ p > 1
                             /\ body[p - 1].obj["type"] = Str("TextBlock")
                             /\ body[p - 1].obj["text"] = Str(label)

\* C21: every dynamic-form document has exactly one submit action, whose data
\* carries action = "submit_dynamic_form" and carries form_id if and only if
\* the data that was rendered contains form_id, with the same value; so the
\* card generate_dynamic_form_card returns carries the identifier under
\* which its definition was stored.
C21_SubmitActionCarriesFormId ==
    \A t \in Tasks :
        ( /\ task[t].pc = "done"
          /\ task[t].template = "dynamic_form"
          /\ task[t].link = "ok" )
        => LET rendered == task[t].data.enc.obj
               actions == ActionsOf(task[t].out)
               carried == actions[1].obj["data"].obj
           IN /\ IsCardText(task[t].out)
              /\ Len(actions) = 1
              /\ actions[1].obj["type"] = Str("Action.Submit")
              /\ carried["action"] = Str("submit_dynamic_form")
              /\ DOMAIN carried = {"action"} \cup (DOMAIN rendered \cap {"form_id"})
              /\ "form_id" \in DOMAIN rendered => carried["form_id"] = rendered["form_id"]
              /\ task[t].op = "generate_dynamic_form_card" =>
                    /\ "form_id" \in DOMAIN carried
                    /\ carried["form_id"] = task[t].fid
                    /\ task[t].fid.str \in DOMAIN FORM_STORE

\* A stored form came back with its identifier in the submit action, and a
\* form rendered directly came back without one.
C21_Witness ==
    \E t, u \in Tasks :
        /\ Returned(t, "generate_dynamic_form_card")
        /\ task[t].link = "ok"
        /\ ActionsOf(task[t].out)[1].obj["data"].obj["form_id"] = task[t].fid
        /\ Returned(u, "generate_adaptive_card")
        /\ task[u].template = "dynamic_form"
        /\ task[u].link = "ok"
        /\ DOMAIN ActionsOf(task[u].out)[1].obj["data"].obj = {"action"}

----------------------------------------------------------------------------
(* The before-model callback of the agent: repair_llm_request_callback *)

\* A types.Part: the payload fields the callback reads, and function_call as
\* one of the payload fields it does not read.  A field that is not set is
\* None.
Part(text, inline_data, function_response, file_data, function_call) ==
    [text |-> text, inline_data |-> inline_data,
     function_response |-> function_response, file_data |-> file_data,
     function_call |-> function_call]

\* types.Part(text="submit_dynamic_form")
RepairPart == Part(Str("submit_dynamic_form"), Null, Null, Null, Null)

\* The test of the inner loop: the part has a field that fills the turn.
PartFillsTurn(part) ==
    \/ Truthy(part.text)
    \/ Truthy(part.inline_data)
    \/ Truthy(part.function_response)
    \/ Truthy(part.file_data)

\* is_empty_turn after the scan of content.parts.
is_empty_turn(content) ==
    IF Truthy(content.parts)
    THEN \A i \in DOMAIN content.parts.list : ~PartFillsTurn(content.parts.list[i])
    ELSE TRUE

\* One iteration of the loop over llm_request.contents: the turn afterwards,
\* and whether the iteration raised (parts is None has no append).
RepairTurn(content) ==
    IF content.role = "user" /\ is_empty_turn(content)
    THEN IF Truthy(content.parts)
         THEN [turn |-> [content EXCEPT !.parts =
                            Lst([content.parts.list EXCEPT
                                    ![1].text = Str("submit_dynamic_form")])],
               raised |-> FALSE]
         ELSE IF IsList(content.parts)
         THEN [turn |-> [content EXCEPT !.parts = Lst(Append(content.parts.list, RepairPart))],
               raised |-> FALSE]
         ELSE [turn |-> content, raised |-> TRUE]
    ELSE [turn |-> content, raised |-> FALSE]

\* The loop: the turns afterwards; an iteration that raises ends it, the
\* turns before it staying as repaired.
RECURSIVE RepairContents(_)
RepairContents(turns) ==
    IF Len(turns) = 0 THEN [turns |-> << >>, raised |-> FALSE]
    ELSE LET first == RepairTurn(Head(turns))
             rest == RepairContents(Tail(turns))
         IN IF first.raised
            THEN [turns |-> turns, raised |-> TRUE]
            ELSE [turns |-> << first.turn >> \o rest.turns, raised |-> rest.raised]

\* repair_llm_request_callback(callback_context, llm_request): the request
\* object afterwards and what the call produced, None or an exception.
repair_llm_request_callback(llm_request) ==
    IF IsNull(llm_request) \/ ~Truthy(llm_request.contents)
    THEN [request |-> llm_request, result |-> Null]
    ELSE LET done == RepairContents(llm_request.contents.list)
         IN [request |-> [contents |-> Lst(done.turns)],
             result |-> IF done.raised THEN Raise("AttributeError") ELSE Null]

\* The agent runtime calls the callback on the request it is about to send.
RepairLlmRequestCallback(t) ==
    /\ task[t].pc = "idle"
    /\ inbox' = repair_llm_request_callback(inbox).request
    /\ task' = [task EXCEPT ![t] =
                  [IdleTask EXCEPT !.pc = "done",
                                   !.op = "repair_llm_request_callback",
                                   !.input = inbox,
                                   !.out = repair_llm_request_callback(inbox).result]]
    /\ UNCHANGED <<heap, held, FORM_STORE, issued>>

\* Bound of the requests: the number of turns.
MaxTurns == 2

EmptyPart == Part(Null, Null, Null, Null, Null)
BlankTextPart == Part(Str(""), Null, Null, Null, Null)
TextPart == Part(Str("hello"), Null, Null, Null, Null)
InlineDataPart == Part(Null, Str("image"), Null, Null, Null)
FunctionResponsePart == Part(Null, Null, Str("response"), Null, Null)
FileDataPart == Part(Null, Null, Null, Str("file"), Null)
FunctionCallPart == Part(Null, Null, Null, Null, Str("call"))

\* The shapes of content.parts: absent, empty, one part, two parts.
PartsShapes ==
    { Null, EmptyList }
    \cup { Lst(<< p >>) : p \in { EmptyPart, BlankTextPart, TextPart, InlineDataPart,
                                  FunctionResponsePart, FileDataPart, FunctionCallPart } }
    \cup { Lst(<< EmptyPart, EmptyPart >>), Lst(<< EmptyPart, TextPart >>),
           Lst(<< FunctionCallPart, TextPart >>), Lst(<< BlankTextPart, FunctionCallPart >>) }

Turns == { [role |-> r, parts |-> p] : r \in {"user", "model"}, p \in PartsShapes }

RECURSIVE TurnLists(_)
TurnLists(n) ==
    IF n = 0 THEN { << >> }
    ELSE TurnLists(n - 1)
         \cup { Append(l, c) : l \in { x \in TurnLists(n - 1) : Len(x) = n - 1 }, c \in Turns }

\* The requests the callback is called with.
LlmRequests ==
    { Null, [contents |-> Null] } \cup { [contents |-> Lst(l)] : l \in TurnLists(MaxTurns) }

InitRepair == InitState /\ inbox \in LlmRequests

NextRepair == RepairLlmRequestCallback(1)

SpecRepair == InitRepair /\ [][NextRepair]_vars

----------------------------------------------------------------------------
(* C22, C23, C30: the repair of empty user turns *)

\* The call of the callback has ended, by a return or by an exception.
Repaired == task[1].pc = "done" /\ task[1].op = "repair_llm_request_callback"

\* The turns of a request; none when the request or its contents is missing.
TurnsOf(llm_request) ==
    IF IsNull(llm_request) THEN << >>
    ELSE IF IsList(llm_request.contents) THEN llm_request.contents.list
    ELSE << >>

\* The parts of a turn; none when parts is absent.
PartsOf(content) == IF IsList(content.parts) THEN content.parts.list ELSE << >>

\* The part carries data of some kind.
CarriesData(part) == PartFillsTurn(part) \/ Truthy(part.function_call)

\* C22: after the callback has run, it has not raised and every user turn
\* of the request has a part with text or with other data, whatever the
\* shape of the turn's parts was (absent, empty list, parts with only
\* empty fields).
C22_NoUserTurnLeftEmpty ==
    Repaired =>
        /\ task[1].out = Null
        /\ \A i \in DOMAIN TurnsOf(inbox) :
              TurnsOf(inbox)[i].role = "user" =>
                  \E j \in DOMAIN PartsOf(TurnsOf(inbox)[i]) :
                      CarriesData(PartsOf(TurnsOf(inbox)[i])[j])

\* A payload field of the part other than text is set.
HoldsOtherPayload(part) ==
    \/ ~IsNull(part.inline_data)
    \/ ~IsNull(part.function_response)
    \/ ~IsNull(part.file_data)
    \/ ~IsNull(part.function_call)

\* C23: the callback writes the text only into parts that hold no other
\* payload field: a part of the request whose text the callback changed
\* has inline_data, function_response, file_data and function_call unset.
C23_TextOnlyIntoBareParts ==
    Repaired =>
        \A i \in DOMAIN TurnsOf(task[1].input) :
            \A j \in DOMAIN PartsOf(TurnsOf(task[1].input)[i]) :
                LET before == PartsOf(TurnsOf(task[1].input)[i])[j]
                    after == PartsOf(TurnsOf(inbox)[i])[j]
                IN after.text # before.text => ~HoldsOtherPayload(before)

\* The turn is one the callback is to leave alone: not a user turn, or a
\* user turn with a part that has text, inline data, a function response
\* or file data.
IsFilledOrForeign(content) ==
    \/ content.role # "user"
    \/ \E j \in DOMAIN PartsOf(content) : PartFillsTurn(PartsOf(content)[j])

\* C30: the callback changes nothing but empty user turns: the request has
\* as many turns afterwards as before, every turn that is not an empty
\* user turn is the same at the same position, and the callback returns
\* None.
C30_OnlyEmptyUserTurnsChange ==
    Repaired =>
        /\ task[1].out = Null
        /\ Len(TurnsOf(inbox)) = Len(TurnsOf(task[1].input))
        /\ \A i \in DOMAIN TurnsOf(task[1].input) :
              IsFilledOrForeign(TurnsOf(task[1].input)[i]) =>
                  TurnsOf(inbox)[i] = TurnsOf(task[1].input)[i]

----------------------------------------------------------------------------
(* The PTO agent: its tools as the model may call them *)

\* request_user_approval(start_date, end_date, tool_context, reason): the
\* text returned and the confirmation it requests, None when it requests
\* none.  tool_confirmation is None on the first call and the user's answer
\* when the call is resumed.
request_user_approval(start_date, end_date, tool_confirmation, reason) ==
    IF ~Truthy(tool_confirmation)
    THEN [requested |-> Obj([hint |-> Str("Please approve or cancel the leave request."),
                             payload |-> Obj([start_date |-> start_date,
                                              end_date |-> end_date,
                                              reason |-> reason])]),
          returned |-> "Please confirm the details on the card shown above."]
    ELSE [requested |-> Null, returned |-> PyStr(tool_confirmation)]

\* submit_to_manager(start_date, end_date, reason)
submit_to_manager(start_date, end_date, reason) ==
    "Your leave request from " \o PyStr(start_date) \o " to " \o PyStr(end_date)
        \o " has been submitted to your manager for approval."

\* The leave requests of the session.
LeaveRequests ==
    { [start_date |-> Str("2026-07-01"), end_date |-> Str("2026-07-03"), reason |-> Str("trip")],
      [start_date |-> Str("2026-07-01"), end_date |-> Str("2026-07-03"), reason |-> Null],
      [start_date |-> Str("2026-08-10"), end_date |-> Str("2026-08-10"), reason |-> Str("move")] }

\* What the user answers on the confirmation card.
UserDecisions == { Str("Approved"), Str("Cancelled") }

\* The session of the PTO agent: per leave request the state of its
\* confirmation ("none", "requested", or the text the resumed call
\* returned), the requests submitted to the manager, and the text the last
\* tool call returned.
InitPTO ==
    /\ InitState
    /\ inbox = [approval |-> [r \in LeaveRequests |-> "none"],
                submitted |-> {},
                returned |-> ""]

\* The model calls request_user_approval: no confirmation is there yet.
RequestUserApprovalCall(r) ==
    LET res == request_user_approval(r.start_date, r.end_date, Null, r.reason)
    IN /\ inbox' = [inbox EXCEPT !.approval[r] = "requested", !.returned = res.returned]
       /\ UNCHANGED <<heap, held, FORM_STORE, issued, task>>

\* The user answers the card and the call is resumed with the answer.
RequestUserApprovalResume(r, decision) ==
    LET res == request_user_approval(r.start_date, r.end_date, decision, r.reason)
    IN /\ inbox.approval[r] = "requested"
       /\ inbox' = [inbox EXCEPT !.approval[r] = res.returned, !.returned = res.returned]
       /\ UNCHANGED <<heap, held, FORM_STORE, issued, task>>

\* The model calls submit_to_manager: the tool has no condition.
SubmitToManagerCall(r) ==
    /\ inbox' = [inbox EXCEPT !.submitted = @ \cup {r},
                              !.returned = submit_to_manager(r.start_date, r.end_date, r.reason)]
    /\ UNCHANGED <<heap, held, FORM_STORE, issued, task>>

\* root_agent of the PTO agent: the model picks the tool and its arguments.
NextPTO ==
    \E r \in LeaveRequests :
        \/ RequestUserApprovalCall(r)
        \/ \E decision \in UserDecisions : RequestUserApprovalResume(r, decision)
        \/ SubmitToManagerCall(r)

SpecPTO == InitPTO /\ [][NextPTO]_vars

----------------------------------------------------------------------------
(* C24: submission to the manager only after the user's approval *)

\* A step that submits the leave request r to the manager.
Submits(r) == r \notin inbox.submitted /\ r \in inbox'.submitted

\* C24: submit_to_manager is executed for a leave request only when the
\* preceding request_user_approval for that request returned the user's
\* approval: no step submits a request that was cancelled or for which no
\* approval was requested.
C24_SubmitOnlyAfterApproval ==
    [][\A r \in LeaveRequests : Submits(r) => inbox.approval[r] = "Approved"]_vars

----------------------------------------------------------------------------
(* The math agent: divide *)

RECURSIVE Gcd(_, _)
Gcd(a, b) == IF b = 0 THEN a ELSE Gcd(b, a % b)

\* The number a / b, b not zero, as a fraction in lowest terms with a
\* positive denominator.
Quotient(a, b) ==
    LET g == Gcd(Abs(a), Abs(b))
        s == IF b < 0 THEN -1 ELSE 1
    IN [ratio |-> << (s * a) \div g, (s * b) \div g >>]

\* divide(a, b)
divide(a, b) ==
    IF b = 0 THEN Raise("ValueError")
    ELSE Quotient(a, b)

\* Bound of the operands of divide.
MaxOperand == 5

Operands == (-MaxOperand)..MaxOperand

\* The model calls divide with the operands in the inbox.
DivideCall(t) ==
    /\ task[t].pc = "idle"
    /\ task' = [task EXCEPT ![t] =
                  [IdleTask EXCEPT !.pc = "done", !.op = "divide",
                                   !.out = divide(inbox[1], inbox[2])]]
    /\ UNCHANGED <<heap, held, FORM_STORE, issued, inbox>>

InitMath == InitState /\ inbox \in Operands \X Operands

NextMath == DivideCall(1)

SpecMath == InitMath /\ [][NextMath]_vars

----------------------------------------------------------------------------
(* C25: divide by zero *)

\* C25: divide(a, b) returns None when b is zero, and otherwise returns the
\* quotient: the number q with q * b = a.
C25_DivideByZeroGivesNone ==
    (task[1].pc = "done" /\ task[1].op = "divide") =>
        IF inbox[2] = 0
        THEN task[1].out = Null
        ELSE /\ "ratio" \in DOMAIN task[1].out
             /\ task[1].out.ratio[1] * inbox[2] = task[1].out.ratio[2] * inbox[1]

----------------------------------------------------------------------------
(* C26: the identifier inside a stored definition *)

\* C26: in every reachable state every entry of FORM_STORE is a mapping
\* whose form_id is the key it is stored under, also after
\* generate_dynamic_form_card was called more than once with the same
\* mapping object.
C26_EmbeddedFormIdIsTheKey ==
    \A f \in DOMAIN FORM_STORE :
        /\ IsDict(Stored(f))
        /\ "form_id" \in DOMAIN Stored(f).obj
        /\ Stored(f).obj["form_id"] = Str(f)

----------------------------------------------------------------------------
(* C27: only generate_dynamic_form_card modifies FORM_STORE *)

\* The step changes the store: its keys, the object a key is bound to, or
\* the content of a stored object.
StoreChanges ==
    \/ FORM_STORE' # FORM_STORE
    \/ \E f \in DOMAIN FORM_STORE : heap'[FORM_STORE[f]] # heap[FORM_STORE[f]]

\* The step is the call of validate_form_submission by coroutine t.
IsValidateStep(t) ==
    /\ task[t].pc # "await"
    /\ task'[t] # task[t]
    /\ task'[t].op = "validate_form_submission"

\* Coroutines t and u validate the same submission and both find, or both
\* do not find, the form it names.
SameValidation(t, u) ==
    /\ task[u].op = "validate_form_submission"
    /\ task[u].input = task'[t].input
    /\ (task[u].defn = Null) = (task'[t].defn = Null)

\* C27: FORM_STORE is modified by generate_dynamic_form_card only: a step of
\* generate_adaptive_card (also with template dynamic_form), of
\* validate_form_submission, or the return of any tool leaves the store as
\* it is, so a validation does not consume the form, and a validation of
\* a submission validated before gives the message it gave before.
C27_OnlyStoreCallsChangeTheStore ==
    [][ /\ StoreChanges => \E t \in Tasks : IsStoreStep(t)
        /\ \A t \in Tasks :
              IsValidateStep(t) =>
                  /\ task'[t].defn # Null =>
                        task'[t].input.obj["form_id"].str \in DOMAIN FORM_STORE'
                  /\ \A u \in Tasks \ {t} :
                        SameValidation(t, u) => task'[t].data = task[u].data
      ]_vars

\* A form was stored, and two validations of one submission that names it
\* have returned with the same document, the form still being stored;
\* a direct render of template dynamic_form may have run as well.
C27_Witness ==
    \E t, u \in Tasks :
        /\ t # u
        /\ Returned(t, "validate_form_submission")
        /\ Returned(u, "validate_form_submission")
        /\ task[t].input = task[u].input
        /\ task[t].defn # Null /\ task[u].defn # Null
        /\ task[t].link = "ok" /\ task[u].link = "ok"
        /\ task[t].out = task[u].out
        /\ task[t].input.obj["form_id"].str \in DOMAIN FORM_STORE

----------------------------------------------------------------------------
(* C28: the store entry of a call whose render fails *)

\* Coroutine t runs or ran generate_dynamic_form_card and got past the
\* normalization of its input: it has issued its render request.
StoredAndRequested(t) ==
    /\ task[t].op = "generate_dynamic_form_card"
    /\ task[t].pc \in {"await", "done"}
    /\ task[t].requests = 1

\* C28: generate_dynamic_form_card writes the definition into FORM_STORE
\* before it issues the render request and never takes it back: while the
\* request is pending and after the call returned, also when the render
\* failed and the fallback document was returned, the store has an entry
\* under the identifier of the call.
C28_StoreEntrySurvivesFailedRender ==
    \A t \in Tasks :
        StoredAndRequested(t) =>
            /\ task[t].fid.str \in DOMAIN FORM_STORE
            /\ IsDict(Stored(task[t].fid.str))
            /\ (task[t].pc = "done" /\ task[t].link # "ok") => IsFallbackText(task[t].out)

\* A call whose render failed has returned the fallback document, which
\* carries no form, and the entry under its identifier is stored.
C28_Witness ==
    \E t \in Tasks :
        /\ StoredAndRequested(t)
        /\ task[t].pc = "done"
        /\ task[t].link = "unreachable"
        /\ IsFallbackText(task[t].out)
        /\ task[t].fid.str \in DOMAIN FORM_STORE
        /\ Stored(task[t].fid.str).obj["form_id"] = task[t].fid

----------------------------------------------------------------------------
(* C29: the colour of the flight status *)

\* A "flight_update" request with a dict as data was answered by the card
\* server.
FlightRendered(t) ==
    /\ Returned(t, "generate_adaptive_card")
    /\ task[t].template = "flight_update"
    /\ task[t].link = "ok"
    /\ IsDict(task[t].input)

\* The block of a flight card that shows the status.
StatusBlock(text) ==
    text.enc.obj["body"].list[2].obj["columns"].list[2].obj["items"].list[1].obj

\* C29: in the flight-update card the status is shown in the colour "Good"
\* exactly when the status text shown is "On Time", and in the colour
\* "Attention" otherwise; a missing status shows the text "On Time".
C29_StatusColourFollowsShownText ==
    \A t \in Tasks :
        FlightRendered(t)
        => LET block == StatusBlock(task[t].reply)
           IN /\ "status" \notin DOMAIN task[t].input.obj => block["text"] = Str("On Time")
              /\ block["color"] = IF block["text"] = Str("On Time")
                                  THEN Str("Good") ELSE Str("Attention")

====
